---- MODULE Spec2Model ----
(***************************************************************************)
(* State machine of the nest daemon (VincentBrodin/nest): the State store   *)
(* of src/state/mod.rs, the event handlers and the two periodic tasks of    *)
(* src/main.rs, and the compositor boundary they talk to.                   *)
(*                                                                          *)
(* The runtime is tokio's current_thread flavour (main.rs:48): the event    *)
(* listener runs one handler at a time, the floating-poll task and the      *)
(* persistence task are spawned beside it, and control changes hands only   *)
(* at an .await that suspends (a compositor call, a sleep, a contended      *)
(* lock).  The two spawned tasks never hold a lock across such an .await;   *)
(* the listener holds its locks across every compositor command.            *)
(***************************************************************************)
EXTENDS Integers, Sequences, FiniteSets, TLC

(***************************************************************************)
(* Bounds of the model.                                                     *)
(***************************************************************************)
MaxTime == 1        \* the clock runs over 0..MaxTime seconds
MaxBuffer == 2      \* config.workspace.buffer ranges over 0..MaxBuffer
MaxEvents == 2      \* compositor events the user causes in one behaviour
MaxPolls == 2       \* floating-poll cycles in one behaviour
MaxActivity == 3    \* user events and poll cycles together
MaxCalls == 3       \* calls a caller of State makes in one behaviour of SpecState

Classes == {"c1", "c2"}
Addresses == {"a1", "a2"}
Workspaces == {1, 2}

Include == "Include"
Exclude == "Exclude"

\* FloatingWindow values (floatingwindow.rs:5-9): G1 differs from G0 in `at`
\* only, G2 differs from G0 in `size` only.
G0 == [at |-> <<0, 0>>, size |-> <<10, 10>>]
G1 == [at |-> <<5, 0>>, size |-> <<10, 10>>]
G2 == [at |-> <<0, 0>>, size |-> <<10, 20>>]
Geometries == {G0, G1, G2}

\* Option<T>: the empty sequence is None, <<v>> is Some(v).
None == <<>>
Some(v) == <<v>>
IsSome(o) == o # <<>>
Unwrap(o) == o[1]

Workspace(id, ts) == [workspace_id |-> id, timestamp |-> ts]

Program(ws, fw, m, fm) ==
    [workspaces |-> ws, floating_window |-> fw, moved |-> m, float_moved |-> fm]

Window(c, ts, o) == [class |-> c, timestamp |-> ts, origin |-> o]

\* HashMap::insert on a map kept as a function over its key set.
Insert(map, k, v) == [x \in (DOMAIN map) \cup {k} |-> IF x = k THEN v ELSE map[x]]
\* A lookup in the place of the removal.
Remove_kept(map, k) == map

Remove(map, k) == [x \in (DOMAIN map) \ {k} |-> map[x]]
EmptyMap == [x \in {} |-> 0]


(***************************************************************************)
(* Configuration (State's *_list, *_mode, workspace_buffer and              *)
(* restore_timeout fields, mod.rs:60-67).  Each list is {"c1"}, so that c1  *)
(* is in every list and c2 in none, and the two configurations give every   *)
(* filter both modes.                                                       *)
(***************************************************************************)
Config(wm, fm, rm, buffer) ==
    [workspace_list |-> {"c1"}, workspace_mode |-> wm, workspace_buffer |-> buffer,
     floating_list |-> {"c1"}, floating_mode |-> fm,
     restore_list |-> {"c1"}, restore_mode |-> rm, restore_timeout |-> 0]

Configs ==
    {Config(Include, Exclude, Include, b) : b \in 0..MaxBuffer}
        \cup {Config(Exclude, Include, Exclude, b) : b \in 0..MaxBuffer}

\* What the storage file can hold at startup: nothing (first run), or a
\* record written by an earlier run (with a history of two placements and a
\* floating geometry).
StoredPrograms ==
    {EmptyMap,
     [c \in {"c1"} |-> Program(<<Workspace(1, 0), Workspace(2, 0)>>, Some(G0), FALSE, FALSE)]}

\* What Clients::get_async can answer (main.rs:192): the live windows as
\* (class, floating, at, size).
Client(c, f, g) == [class |-> c, floating |-> f, at |-> g.at, size |-> g.size]

ClientLists ==
    {<<Client("c1", TRUE, G0)>>,
     <<Client("c1", TRUE, G1)>>,
     <<Client("c1", TRUE, G2)>>,
     <<Client("c1", TRUE, G0), Client("c1", FALSE, G0)>>,
     <<Client("c2", TRUE, G0)>>}

VARIABLES
    cfg,                \* the configuration the State was built with
    addresses,          \* State.addresses: Address -> Window
    programs,           \* State.programs: class -> Program
    current_workspace,  \* State.current_workspace
    changed,            \* State.changed
    addresses_lock,     \* who holds the mutex of State.addresses
    programs_lock,      \* who holds the mutex of State.programs
    listener,           \* the event listener task: position and locals
    poll,               \* the floating-poll task: position and locals
    persist,            \* the persistence task: position
    file,               \* the storage file's content
    now,                \* Utc::now().timestamp()
    echoes,             \* window-moved events the compositor emitted for
                        \* the daemon's own commands, not yet delivered
    issued,             \* commands issued so far by the running handler
    lastOp,             \* the last two State calls that completed
    nevents,            \* user events handled so far
    npolls,             \* poll cycles started so far
    codec,              \* a storage line on its way through Program's
                        \* FromStr and Display (SpecCodec)
    storage,            \* a storage file on its way through Storage::read
                        \* and State::load (SpecStorage)
    selection,          \* a history on its way through
                        \* calculate_workspace (SpecSelect)
    callers             \* tasks inside State's methods, as far as the two
                        \* mutexes go (SpecLocks)

vars == <<cfg, addresses, programs, current_workspace, changed, addresses_lock,
          programs_lock, listener, poll, persist, file, now, echoes, issued,
          lastOp, nevents, npolls, codec, storage, selection, callers>>

Event(kind, class, address, workspace_id, origin) ==
    [kind |-> kind, class |-> class, address |-> address,
     workspace_id |-> workspace_id, origin |-> origin]

NoEvent == Event("none", "", "", 0, "")

Listener(pc, event, program, workspace_id, k) ==
    [pc |-> pc, event |-> event, program |-> program,
     workspace_id |-> workspace_id, k |-> k]

ListenerIdle == Listener("idle", NoEvent, None, 0, 0)

\* A completed State call, with the call that completed before it.
Op(op, class, address, workspace_id, geometry, result, origin) ==
    [op |-> op, class |-> class, address |-> address, workspace_id |-> workspace_id,
     geometry |-> geometry, result |-> result, origin |-> origin,
     answers |-> <<>>,
     after |-> [op |-> lastOp.op, class |-> lastOp.class, address |-> lastOp.address,
                geometry |-> lastOp.geometry, result |-> lastOp.result]]

\* A command sent to the compositor; answer is "" until its answer arrives.
Command(type, address, arg) ==
    [type |-> type, address |-> address, arg |-> arg, answer |-> ""]

\* The answer to the command sent last arrives.
Answer(commands, ok) ==
    [commands EXCEPT ![Len(commands)].answer = IF ok THEN "Ok" ELSE "Err"]

\* A completed call with the answers to the commands it sent.
Answered(op, commands) ==
    [op EXCEPT !.answers = [i \in 1..Len(commands) |-> commands[i].answer]]

\* The listener is suspended, or between two calls that take the programs
\* lock anew: the other tasks and the clock move only then.  (Within
\* window-opened a task that waited for the programs lock could also get it
\* between add_window, get_program and move_window; what it does there it
\* does, to the same effect, before add_window or after move_window.)
ListenerYielded ==
    listener.pc \in {"idle", "move_window_await", "move_float_window",
                     "move_float_window_await", "remove_window_await"}

\* issued is the running handler's: it is emptied when the handler returns.
IssuedAfter(l, commands) == IF l.pc = "idle" THEN <<>> ELSE commands

(***************************************************************************)
(* Pure parts of the State methods.                                         *)
(***************************************************************************)

\* A filter that reads the list and not the mode.
workspace_filter_excludes_list_only(class, list, mode) == class \notin list

\* mod.rs:231-233, the workspace-move filter of move_window.
workspace_filter_excludes(class, list, mode) ==
    LET is_in_list == class \in list IN
    \/ (~is_in_list /\ mode = Include)
    \/ (is_in_list /\ mode = Exclude)

\* mod.rs:312-314, the floating filter of move_float_window.
floating_filter_excludes(class, list, mode) ==
    LET is_in_list == class \in list IN
    \/ (~is_in_list /\ mode = Include)
    \/ (is_in_list /\ mode = Exclude)

\* A restore decision that is false when the timeout has just been reached.
restore_applies_strict(class, diff, timeout, list, mode) ==
    LET is_in_list == class \in list IN
    /\ timeout > diff
    /\ \/ (is_in_list /\ mode = Include)
       \/ (~is_in_list /\ mode = Exclude)

\* A restore decision that reads the timeout and not the filter.
restore_applies_any_class(class, diff, timeout, list, mode) == timeout >= diff

\* mod.rs:159-163, the restore decision of remove_window.
restore_applies(class, diff, timeout, list, mode) ==
    LET is_in_list == class \in list IN
    /\ timeout >= diff
    /\ \/ (is_in_list /\ mode = Include)
       \/ (~is_in_list /\ mode = Exclude)

\* mod.rs:209-211: while workspaces.len() > workspace_buffer { remove(0) }.
RECURSIVE evict_oldest(_, _)
evict_oldest(workspaces, buffer) ==
    IF Len(workspaces) > buffer
    THEN evict_oldest(Tail(workspaces), buffer)
    ELSE workspaces

\* mod.rs:203-211: push the position, then evict.
push_position(workspaces, position, buffer) ==
    evict_oldest(Append(workspaces, position), buffer)

\* A comparison of the positions only.
geometry_changed_at_only(floating_window, window) ==
    IF IsSome(floating_window)
    THEN Unwrap(floating_window).at # window.at
    ELSE TRUE

\* mod.rs:272-275: does the polled geometry differ from the stored one?
geometry_changed(floating_window, window) ==
    IF IsSome(floating_window)
    THEN LET last == Unwrap(floating_window) IN
         last.at # window.at \/ last.size # window.size
    ELSE TRUE

(***************************************************************************)
(* calculate_workspace (main.rs:258-284).  The score of a placement is      *)
(* e^(-age / tau); tau is taken as 1 / ln 2 seconds, so that the score is   *)
(* 2^(-age), kept here scaled by 2^MaxTime to stay in the integers.  The    *)
(* result is an element of score_map with the maximal sum; which one, when  *)
(* sums are equal, is decided by the HashMap's iteration order, so every    *)
(* maximal workspace is a possible result.  The empty set stands for None.  *)
(***************************************************************************)
score(age) == 2 ^ (MaxTime - age)

RECURSIVE score_sum(_, _, _)
score_sum(workspaces, id, t) ==
    IF workspaces = <<>> THEN 0
    ELSE (IF Head(workspaces).workspace_id = id
          THEN score(t - Head(workspaces).timestamp) ELSE 0)
         + score_sum(Tail(workspaces), id, t)

calculate_workspace(workspaces, t) ==
    LET ids == {workspaces[i].workspace_id : i \in 1..Len(workspaces)} IN
    {id \in ids : \A other \in ids :
        score_sum(workspaces, id, t) >= score_sum(workspaces, other, t)}

(***************************************************************************)
(* calculate_workspace with its tau (SpecSelect).  An f64 score is kept as  *)
(* a fixed-point number, Scale standing for 1.0, and e^(-age / tau) is      *)
(* computed as (1 - age / (tau * n))^n with n = 2^Squarings, by squaring    *)
(* Squarings times; ages are not negative.                                  *)
(***************************************************************************)
Scale == 2 ^ 15

Squarings == 8

RECURSIVE squared(_, _)
squared(y, k) == IF k = 0 THEN y ELSE squared((y * y) \div Scale, k - 1)

\* main.rs:263-264: f64::powf(E, -age / tau).
powf_E(age, tau) ==
    LET base == Scale - (age * Scale) \div (tau * 2 ^ Squarings) IN
    IF base <= 0 THEN 0 ELSE squared(base, Squarings)

\* An insertion that replaces the score of the workspace.
score_map_insert_replaces(score_map, id, s) == Insert(score_map, id, s)

\* main.rs:266-269: the score is added to what the workspace has.
score_map_insert(score_map, id, s) ==
    IF id \in DOMAIN score_map
    THEN Insert(score_map, id, score_map[id] + s)
    ELSE Insert(score_map, id, s)

\* main.rs:261-270: the loop over the workspaces, in their order.
RECURSIVE score_map_of(_, _, _, _)
score_map_of(score_map, workspaces, tau, t) ==
    IF workspaces = <<>> THEN score_map
    ELSE LET workspace == Head(workspaces)
             age == t - workspace.timestamp
         IN  score_map_of(score_map_insert(score_map, workspace.workspace_id,
                                           powf_E(age, tau)),
                          Tail(workspaces), tau, t)

\* A maximum that passes over the scores that are 0.
max_by_positive(score_map) ==
    {id \in DOMAIN score_map :
        /\ score_map[id] > 0
        /\ \A other \in DOMAIN score_map : score_map[other] <= score_map[id]}

\* main.rs:272-283: iter().max_by(..) gives the last of the entries with the
\* greatest score in the HashMap's iteration order, which is any of them,
\* and nothing (the empty set) for an empty map.
max_by(score_map) ==
    {id \in DOMAIN score_map :
        \A other \in DOMAIN score_map : score_map[other] <= score_map[id]}

\* main.rs:258-284 called at the time t.
calculate_workspace_at(workspaces, tau, t) ==
    max_by(score_map_of(EmptyMap, workspaces, tau, t))

\* What Display for Program writes of a record (program.rs:14-28): the
\* class, the workspaces and the floating window; the two flags are not
\* written.
Stored(program) ==
    [workspaces |-> program.workspaces, floating_window |-> program.floating_window]

\* get_programs (mod.rs:370-378) followed by Storage::write: one line for
\* each program.
FileOf(map) == [c \in DOMAIN map |-> Stored(map[c])]

(***************************************************************************)
(* The storage line of a program: Display and FromStr of Program            *)
(* (program.rs), Workspace (workspace.rs) and FloatingWindow                *)
(* (floatingwindow.rs).  A string is a sequence of one-character strings.   *)
(***************************************************************************)
Ok(v) == [ok |-> TRUE, val |-> v]
Err(e) == [ok |-> FALSE, err |-> e]

Digits == <<"0", "1", "2", "3", "4", "5", "6", "7", "8", "9">>
IsDigit(c) == \E i \in 1..Len(Digits) : Digits[i] = c
DigitValue(c) == (CHOOSE i \in 1..Len(Digits) : Digits[i] = c) - 1

RECURSIVE digits_value(_, _)
digits_value(s, acc) ==
    IF s = <<>> THEN acc
    ELSE digits_value(Tail(s), acc * 10 + DigitValue(Head(s)))

\* str::parse for a signed integer type with the range min..max: an optional
\* sign, then one digit at least and digits only.  (The digit strings of the
\* model are short enough for acc to stay far from the 64 bits of i64.)
parse_int(s, min, max) ==
    LET signed == s # <<>> /\ Head(s) \in {"-", "+"}
        body == IF signed THEN Tail(s) ELSE s
    IN  IF body = <<>> \/ (\E i \in 1..Len(body) : ~IsDigit(body[i]))
        THEN Err("Int")
        ELSE LET v == IF Head(s) = "-" THEN 0 - digits_value(body, 0)
                      ELSE digits_value(body, 0)
             IN  IF v < min \/ v > max THEN Err("Int") ELSE Ok(v)

parse_i16(s) == parse_int(s, 0 - 2^15, 2^15 - 1)
parse_i32(s) == parse_int(s, 0 - 2147483647 - 1, 2147483647)
\* i64: every value the model's strings denote is in range.
parse_i64(s) == parse_int(s, 0 - 2147483647 - 1, 2147483647)

RECURSIVE nat_to_string(_)
nat_to_string(n) ==
    IF n < 10 THEN <<Digits[n + 1]>>
    ELSE Append(nat_to_string(n \div 10), Digits[(n % 10) + 1])

\* Display of an integer.
to_string(n) == IF n < 0 THEN <<"-">> \o nat_to_string(0 - n) ELSE nat_to_string(n)

\* str::split(sep): the pieces between the separators, empty ones included.
RECURSIVE split_from(_, _, _)
split_from(s, sep, piece) ==
    IF s = <<>> THEN <<piece>>
    ELSE IF Head(s) = sep
    THEN <<piece>> \o split_from(Tail(s), sep, <<>>)
    ELSE split_from(Tail(s), sep, Append(piece, Head(s)))

split(s, sep) == split_from(s, sep, <<>>)

RECURSIVE trim_start_matches(_, _)
trim_start_matches(s, chars) ==
    IF s # <<>> /\ Head(s) \in chars THEN trim_start_matches(Tail(s), chars) ELSE s

RECURSIVE trim_end_matches(_, _)
trim_end_matches(s, chars) ==
    IF s # <<>> /\ s[Len(s)] \in chars
    THEN trim_end_matches(SubSeq(s, 1, Len(s) - 1), chars)
    ELSE s

\* str::trim_matches(chars).
trim_matches(s, chars) == trim_end_matches(trim_start_matches(s, chars), chars)

\* str::trim: the white space of the model's strings is the blank.
trim(s) == trim_matches(s, {" "})

\* impl Display for Workspace (workspace.rs:11-15).
Workspace_to_string(workspace) ==
    to_string(workspace.workspace_id) \o <<";">> \o to_string(workspace.timestamp)

\* impl FromStr for Workspace (workspace.rs:17-37).
Workspace_from_str(s) ==
    IF s = <<>> THEN Err("InvalidFormat")
    ELSE LET parts == split(s, ";") IN
         IF Len(parts) # 2 THEN Err("InvalidFormat")
         ELSE LET workspace_id == parse_i32(parts[1])
                  timestamp == parse_i64(parts[2])
              IN  IF ~workspace_id.ok THEN Err("Int")
                  ELSE IF ~timestamp.ok THEN Err("Int")
                  ELSE Ok(Workspace(workspace_id.val, timestamp.val))

\* impl Display for FloatingWindow (floatingwindow.rs:11-19).
FloatingWindow_to_string(window) ==
    to_string(window.at[1]) \o <<";">> \o to_string(window.at[2]) \o <<";">>
        \o to_string(window.size[1]) \o <<";">> \o to_string(window.size[2])

\* impl FromStr for FloatingWindow (floatingwindow.rs:21-43).
FloatingWindow_from_str(s) ==
    IF s = <<>> THEN Err("InvalidFormat")
    ELSE LET parts == split(s, ";") IN
         IF Len(parts) # 4 THEN Err("InvalidFormat")
         ELSE LET at_x == parse_i16(parts[1])
                  at_y == parse_i16(parts[2])
                  size_x == parse_i16(parts[3])
                  size_y == parse_i16(parts[4])
              IN  IF ~at_x.ok \/ ~at_y.ok \/ ~size_x.ok \/ ~size_y.ok
                  THEN Err("Int")
                  ELSE Ok([at |-> <<at_x.val, at_y.val>>,
                           size |-> <<size_x.val, size_y.val>>])

\* Result::ok (program.rs:55).
result_ok(result) == IF result.ok THEN Some(result.val) ELSE None

\* program.rs:17-22: the workspaces with a comma between two of them.
RECURSIVE Workspaces_to_string(_)
Workspaces_to_string(workspaces) ==
    IF workspaces = <<>> THEN <<>>
    ELSE Workspace_to_string(Head(workspaces))
            \o (IF Len(workspaces) > 1 THEN <<",">> ELSE <<>>)
            \o Workspaces_to_string(Tail(workspaces))

\* impl Display for Program (program.rs:14-28); program.class is the class.
Program_to_string(program) ==
    program.class \o <<":", "[">> \o Workspaces_to_string(program.workspaces)
        \o (IF IsSome(program.floating_window)
            THEN <<"]", "&", "[">>
                    \o FloatingWindow_to_string(Unwrap(program.floating_window))
                    \o <<"]">>
            ELSE <<"]", "&", "[", "]">>)

\* program.rs:46-50: the items are parsed in order, and the first failure is
\* returned.
RECURSIVE Workspaces_from_str(_)
Workspaces_from_str(items) ==
    IF items = <<>> THEN Ok(<<>>)
    ELSE LET workspace == Workspace_from_str(Head(items)) IN
         IF ~workspace.ok THEN workspace
         ELSE LET rest == Workspaces_from_str(Tail(items)) IN
              IF ~rest.ok THEN rest
              ELSE Ok(<<workspace.val>> \o rest.val)

\* program.rs:36-62: the program of a class and of the text that follows the
\* class in the line.
Program_from_data(class, text) ==
    LET data == split(text, "&")
        workspaces_str == split(trim_matches(trim(data[1]), {"[", "]"}), ",")
        workspaces == Workspaces_from_str(workspaces_str)
        window_str == trim_matches(trim(data[Len(data)]), {"[", "]"})
        floating_window == result_ok(FloatingWindow_from_str(window_str))
    IN  IF ~workspaces.ok THEN workspaces
        ELSE Ok([class |-> class, workspaces |-> workspaces.val,
                 floating_window |-> floating_window,
                 moved |-> FALSE, float_moved |-> FALSE])

\* program.rs:34-36: the class is what precedes the first ':', the data what
\* follows the last one.
Program_from_str(s) ==
    LET parts == split(s, ":") IN
    Program_from_data(parts[1], parts[Len(parts)])

(***************************************************************************)
(* Storage::read (storage.rs:41-77).  The file is the sequence of its       *)
(* lines.  A line gives a program whatever it holds: an object that is no   *)
(* position is passed over.                                                 *)
(***************************************************************************)

\* str_to_position (storage.rs:100-117): the first and the last of the
\* fields between ';' are parsed, the fields between them are not looked at.
str_to_position(value) ==
    IF value = <<>> THEN None
    ELSE LET fields == split(value, ";")
             workspace_id == parse_i32(fields[1])
             time == parse_i64(fields[Len(fields)])
         IN  IF ~workspace_id.ok THEN None
             ELSE IF ~time.ok THEN None
             ELSE Some([workspace_id |-> workspace_id.val, time |-> time.val])

\* storage.rs:67-73: the positions of the objects that are positions.
RECURSIVE positions_of(_)
positions_of(objects) ==
    IF objects = <<>> THEN <<>>
    ELSE LET position == str_to_position(Head(objects)) IN
         (IF IsSome(position) THEN <<Unwrap(position)>> ELSE <<>>)
            \o positions_of(Tail(objects))

\* storage.rs:51-74: the program of one line.
line_to_program(line) ==
    LET parts == split(line, ":")
        class == parts[1]
        objects == split(trim_matches(trim(parts[Len(parts)]), {"[", "]"}), ",")
    IN  [class |-> class, positions |-> positions_of(objects), moved |-> FALSE]

\* storage.rs:50-75: one program for each line, in the order of the lines.
RECURSIVE lines_to_programs(_)
lines_to_programs(lines) ==
    IF lines = <<>> THEN <<>>
    ELSE <<line_to_program(Head(lines))>> \o lines_to_programs(Tail(lines))

\* storage.rs:41-77: seek and read_to_string can fail; the lines cannot.
Storage_read(lines, io_ok) ==
    IF ~io_ok THEN Err("IO") ELSE Ok(lines_to_programs(lines))

\* State::load (mod.rs:115-117): the programs are inserted under their
\* class in order, a later one replacing an earlier one of the same class.
RECURSIVE load_programs(_, _)
load_programs(map, progs) ==
    IF progs = <<>> THEN map
    ELSE load_programs(Insert(map, Head(progs).class, Head(progs)), Tail(progs))

\* No line is being decoded, no file is being read, no history is being
\* scored.
NoLine == [phase |-> "none"]

NoFile == [phase |-> "none"]

NoHistory == [phase |-> "none"]

\* No task is followed through the mutexes.
NoCallers == <<>>

(***************************************************************************)
(* Initial state: State::load (mod.rs:97-119) on what Storage::read         *)
(* returned, the three tasks at their start.                                *)
(***************************************************************************)
Constructed ==
    /\ file = FileOf(programs)
    /\ addresses = EmptyMap
    /\ current_workspace = 1
    /\ changed = FALSE
    /\ addresses_lock = "free"
    /\ programs_lock = "free"
    /\ listener = ListenerIdle
    /\ persist = [pc |-> "check", wrote |-> ""]
    /\ now = 0
    /\ echoes = <<>>
    /\ issued = <<>>
    /\ lastOp = [op |-> "load", class |-> "", address |-> "", workspace_id |-> 0,
                 geometry |-> None, result |-> "", origin |-> "", answers |-> <<>>,
                 after |-> [op |-> "", class |-> "", address |-> "",
                            geometry |-> None, result |-> ""]]
    /\ nevents = 0
    /\ npolls = 0

Started ==
    /\ Constructed
    /\ poll = [pc |-> "fetch", clients |-> <<>>, programs |-> EmptyMap]

Init ==
    /\ cfg \in Configs
    /\ programs \in StoredPrograms
    /\ Started
    /\ codec = NoLine
    /\ storage = NoFile
    /\ selection = NoHistory
    /\ callers = NoCallers

(***************************************************************************)
(* The event listener.  It takes one event at a time: an event the user     *)
(* caused (at most MaxEvents of them) or the oldest undelivered echo of one *)
(* of the daemon's own commands.                                            *)
(***************************************************************************)
Taken(event) ==
    /\ listener.pc = "idle"
    /\ addresses_lock = "free"
    /\ programs_lock = "free"
    /\ IF event.origin = "user"
       THEN /\ nevents < MaxEvents
            /\ nevents + npolls < MaxActivity
            /\ nevents' = nevents + 1
            /\ UNCHANGED echoes
       ELSE /\ echoes # <<>>
            /\ event = Event("moved", "", Head(echoes).address,
                             Head(echoes).workspace_id, "daemon")
            /\ echoes' = Tail(echoes)
            /\ UNCHANGED nevents

\* workspace_changed (mod.rs:385-387), called by the handler of main.rs:93-98.
workspace_changed ==
    \E id \in Workspaces :
        /\ Taken(Event("workspace", "", "", id, "user"))
        /\ current_workspace' = id
        /\ lastOp' = Op("workspace_changed", "", "", id, None, "", "user")
        /\ UNCHANGED <<codec, storage, selection, callers, cfg, addresses, programs, changed, addresses_lock,
                       programs_lock, listener, poll, persist, file, now, issued, npolls>>

\* A window_moved that leaves the flag set on the internal-move path.
window_moved_program_flag_kept(program, workspace_id, t, buffer) ==
    IF program.moved
    THEN program
    ELSE [program EXCEPT
            !.workspaces = push_position(program.workspaces,
                                         Workspace(workspace_id, t), buffer)]

\* mod.rs:196-211, what window_moved does to the program it found: an
\* internal move only clears the flag, any other move is pushed.
window_moved_program(program, workspace_id, t, buffer) ==
    IF program.moved
    THEN [program EXCEPT !.moved = FALSE]
    ELSE [program EXCEPT
            !.workspaces = push_position(program.workspaces,
                                         Workspace(workspace_id, t), buffer)]

\* A window_moved that never stores to changed.
window_moved_changed_never(program, was_changed) == was_changed

\* mod.rs:197-213: changed is stored only on the path that pushed.
window_moved_changed(program, was_changed) ==
    IF program.moved THEN was_changed ELSE TRUE

\* A window_moved that stores to changed before its lookups.
window_moved_call_marks_first(event) ==
    /\ changed' = TRUE
    /\ IF event.address \notin DOMAIN addresses
       THEN /\ lastOp' = Op("window_moved", "", event.address, event.workspace_id,
                            None, "BlankAddress", event.origin)
            /\ UNCHANGED programs
       ELSE LET window == addresses[event.address]
                program == programs[window.class]
            IN  /\ programs' = [programs EXCEPT ![window.class] =
                        window_moved_program(program, event.workspace_id, now,
                                             cfg.workspace_buffer)]
                /\ lastOp' = Op("window_moved", window.class, event.address,
                                event.workspace_id, None,
                                IF program.moved THEN "Ignored" ELSE "Pushed",
                                event.origin)

\* window_moved (mod.rs:179-220) as a call: both locks are taken and dropped
\* within it.
window_moved_call(event) ==
       IF event.address \notin DOMAIN addresses
       THEN /\ lastOp' = Op("window_moved", "", event.address, event.workspace_id,
                            None, "BlankAddress", event.origin)
            /\ UNCHANGED <<programs, changed>>
       ELSE LET window == addresses[event.address] IN
            IF window.class \notin DOMAIN programs
            THEN /\ lastOp' = Op("window_moved", window.class, event.address,
                                 event.workspace_id, None, "BlankClass", event.origin)
                 /\ UNCHANGED <<programs, changed>>
            ELSE LET program == programs[window.class] IN
                 /\ programs' = [programs EXCEPT ![window.class] =
                        window_moved_program(program, event.workspace_id, now,
                                             cfg.workspace_buffer)]
                 /\ changed' = window_moved_changed(program, changed)
                 /\ lastOp' = Op("window_moved", window.class, event.address,
                                 event.workspace_id, None,
                                 IF program.moved THEN "Ignored" ELSE "Pushed",
                                 event.origin)

\* The window-moved handler (main.rs:175-186) calls window_moved.
window_moved(event) ==
    /\ Taken(event)
    /\ window_moved_call(event)
    /\ UNCHANGED <<codec, storage, selection, callers, cfg, addresses, current_workspace, addresses_lock, programs_lock,
                   listener, poll, persist, file, now, issued, npolls>>

\* A window-moved event the user caused.
UserWindowMoved ==
    \E address \in Addresses, id \in Workspaces :
        window_moved(Event("moved", "", address, id, "user"))

\* The window-moved event the compositor emitted for a MoveToWorkspace
\* command of the daemon.
EchoWindowMoved ==
    /\ echoes # <<>>
    /\ window_moved(Event("moved", "", Head(echoes).address,
                          Head(echoes).workspace_id, "daemon"))

\* An add_window that creates no program.
add_window_programs_never(map, class, workspace, t) == map

\* An add_window that creates the program anew for a class that has one.
add_window_programs_always(map, class, workspace, t) ==
    Insert(map, class, Program(<<Workspace(workspace, t)>>, None, FALSE, FALSE))

\* mod.rs:124-140, the first block of add_window: a program is created for
\* a class that has none.
add_window_programs(map, class, workspace, t) ==
    IF class \notin DOMAIN map
    THEN Insert(map, class,
                Program(<<Workspace(workspace, t)>>, None, FALSE, FALSE))
    ELSE map

\* add_window (mod.rs:121-153) as a call: the program is created when the
\* class has none, and the window is inserted under its address.
add_window_call(class, address) ==
    /\ programs' = add_window_programs(programs, class, current_workspace, now)
    /\ addresses' = Insert(addresses, address,
                           Window(class, now, current_workspace))
    /\ lastOp' = Op("add_window", class, address, current_workspace, None,
                    "Ok", "user")

\* The window-opened handler (main.rs:101-106) up to the return of
\* add_window.  The compositor gives a new window an address no live window
\* has.
add_window ==
    \E class \in Classes, address \in Addresses \ DOMAIN addresses :
        /\ Taken(Event("opened", class, address, 0, "user"))
        /\ add_window_call(class, address)
        /\ listener' = Listener("get_program",
                                Event("opened", class, address, 0, "user"),
                                None, 0, 0)
        /\ UNCHANGED <<codec, storage, selection, callers, cfg, current_workspace, changed, addresses_lock,
                       programs_lock, poll, persist, file, now, issued, npolls>>

\* main.rs:107-118: the handler copies the program and chooses the target.
get_program ==
    /\ listener.pc = "get_program"
    /\ programs_lock = "free"
    /\ IF listener.event.class \notin DOMAIN programs
       THEN listener' = ListenerIdle
       ELSE LET program == programs[listener.event.class]
                best == calculate_workspace(program.workspaces, now)
            IN  \E workspace_id \in (IF best = {} THEN {current_workspace} ELSE best) :
                    listener' = [listener EXCEPT !.pc = "move_window",
                                                 !.program = Some(program),
                                                 !.workspace_id = workspace_id]
    /\ issued' = IssuedAfter(listener', issued)
    /\ UNCHANGED <<codec, storage, selection, callers, cfg, addresses, programs, current_workspace, changed,
                   addresses_lock, programs_lock, poll, persist, file, now, echoes,
                   lastOp, nevents, npolls>>

\* A handler that goes on to move_float_window whatever the copied program
\* holds.
AfterMoveWindow_always == [listener EXCEPT !.pc = "move_float_window"]

\* main.rs:134-137: after move_window the handler goes on to
\* move_float_window when the copied program has a floating window.
AfterMoveWindow ==
    IF IsSome(listener.program) /\ IsSome(Unwrap(listener.program).floating_window)
    THEN [listener EXCEPT !.pc = "move_float_window"]
    ELSE ListenerIdle

\* move_window (mod.rs:222-243): both locks are taken, the window and the
\* program are looked up, and the flag is set.  The call returns early
\* (dropping the locks) on an unknown address, a filtered class or an unknown
\* class.
move_window ==
    /\ listener.pc = "move_window"
    /\ addresses_lock = "free"
    /\ programs_lock = "free"
    /\ LET address == listener.event.address IN
       IF address \notin DOMAIN addresses
       THEN /\ lastOp' = Op("move_window", "", address, listener.workspace_id, None,
                            "BlankAddress", "")
            /\ listener' = AfterMoveWindow
            /\ UNCHANGED <<programs, addresses_lock, programs_lock>>
       ELSE LET class == addresses[address].class IN
            IF workspace_filter_excludes(class, cfg.workspace_list, cfg.workspace_mode)
            THEN /\ lastOp' = Op("move_window", class, address, listener.workspace_id,
                                 None, "Ok(false)", "")
                 /\ listener' = AfterMoveWindow
                 /\ UNCHANGED <<programs, addresses_lock, programs_lock>>
            ELSE IF class \notin DOMAIN programs
            THEN /\ lastOp' = Op("move_window", class, address, listener.workspace_id,
                                 None, "BlankClass", "")
                 /\ listener' = AfterMoveWindow
                 /\ UNCHANGED <<programs, addresses_lock, programs_lock>>
            ELSE /\ programs' = [programs EXCEPT ![class].moved = TRUE]
                 /\ addresses_lock' = "listener"
                 /\ programs_lock' = "listener"
                 /\ listener' = [listener EXCEPT !.pc = "move_window_dispatch"]
                 /\ UNCHANGED lastOp
    /\ issued' = IssuedAfter(listener', issued)
    /\ UNCHANGED <<codec, storage, selection, callers, cfg, addresses, current_workspace, changed, poll, persist, file,
                   now, echoes, nevents, npolls>>

\* mod.rs:245-249: the MoveToWorkspace command goes to the compositor.
move_window_dispatch ==
    /\ listener.pc = "move_window_dispatch"
    /\ issued' = Append(issued, Command("MoveToWorkspace", listener.event.address,
                                        listener.workspace_id))
    /\ listener' = [listener EXCEPT !.pc = "move_window_await"]
    /\ UNCHANGED <<codec, storage, selection, callers, cfg, addresses, programs, current_workspace, changed,
                   addresses_lock, programs_lock, poll, persist, file, now, echoes,
                   lastOp, nevents, npolls>>

\* A move_window that leaves the flag set when the command failed.
move_window_result_flag_kept(program, ok) == program

\* mod.rs:251-256: on failure the flag is taken back.
move_window_result(program, ok) ==
    IF ok THEN program ELSE [program EXCEPT !.moved = FALSE]

\* mod.rs:250, 256: what move_window returns for the command's answer.
move_window_returns(ok) == IF ok THEN "Ok(true)" ELSE "Ok(false)"

\* mod.rs:250-258: the compositor's answer arrives and move_window returns,
\* dropping both locks.  A command that succeeded may or may not have moved
\* the window (it may have been on the target already), so its window-moved
\* event may or may not follow.
move_window_await ==
    /\ listener.pc = "move_window_await"
    /\ LET address == listener.event.address
           class == addresses[address].class
       IN  \E ok \in BOOLEAN, echo \in BOOLEAN :
            /\ ~ok => ~echo
            /\ programs' = [programs EXCEPT ![class] =
                                move_window_result(programs[class], ok)]
            /\ echoes' = IF echo
                         THEN Append(echoes, [address |-> address,
                                              workspace_id |-> listener.workspace_id])
                         ELSE echoes
            /\ lastOp' = Answered(Op("move_window", class, address,
                                      listener.workspace_id, None,
                                      move_window_returns(ok), ""),
                                   Answer(issued, ok))
            /\ issued' = IssuedAfter(AfterMoveWindow, Answer(issued, ok))
    /\ addresses_lock' = "free"
    /\ programs_lock' = "free"
    /\ listener' = AfterMoveWindow
    /\ UNCHANGED <<codec, storage, selection, callers, cfg, addresses, current_workspace, changed, poll, persist, file,
                   now, nevents, npolls>>

\* The three commands of move_float_window, in the order of mod.rs:326-362.
FloatCommands == <<"ToggleFloating", "MoveWindowPixel", "ResizeWindowPixel">>

\* move_float_window (mod.rs:298-324): as move_window, with the floating
\* filter and the float_moved flag.
move_float_window ==
    /\ listener.pc = "move_float_window"
    /\ addresses_lock = "free"
    /\ programs_lock = "free"
    /\ LET address == listener.event.address IN
       IF address \notin DOMAIN addresses
       THEN /\ lastOp' = Op("move_float_window", "", address, 0,
                            None,
                            "BlankAddress", "")
            /\ listener' = ListenerIdle
            /\ UNCHANGED <<programs, addresses_lock, programs_lock>>
       ELSE LET class == addresses[address].class IN
            IF floating_filter_excludes(class, cfg.floating_list, cfg.floating_mode)
            THEN /\ lastOp' = Op("move_float_window", class, address, 0,
                                 None,
                                 "Ok(false)", "")
                 /\ listener' = ListenerIdle
                 /\ UNCHANGED <<programs, addresses_lock, programs_lock>>
            ELSE IF class \notin DOMAIN programs
            THEN /\ lastOp' = Op("move_float_window", class, address, 0,
                                 None,
                                 "BlankClass", "")
                 /\ listener' = ListenerIdle
                 /\ UNCHANGED <<programs, addresses_lock, programs_lock>>
            ELSE /\ programs' = [programs EXCEPT ![class].float_moved = TRUE]
                 /\ addresses_lock' = "listener"
                 /\ programs_lock' = "listener"
                 /\ listener' = [listener EXCEPT !.pc = "move_float_window_dispatch",
                                                 !.k = 1]
                 /\ UNCHANGED lastOp
    /\ issued' = IssuedAfter(listener', issued)
    /\ UNCHANGED <<codec, storage, selection, callers, cfg, addresses, current_workspace, changed, poll, persist, file,
                   now, echoes, nevents, npolls>>

\* mod.rs:326, 338, 351: the k-th command goes to the compositor.
move_float_window_dispatch ==
    /\ listener.pc = "move_float_window_dispatch"
    /\ issued' = Append(issued, Command(FloatCommands[listener.k],
                                        listener.event.address, 0))
    /\ listener' = [listener EXCEPT !.pc = "move_float_window_await"]
    /\ UNCHANGED <<codec, storage, selection, callers, cfg, addresses, programs, current_workspace, changed,
                   addresses_lock, programs_lock, poll, persist, file, now, echoes,
                   lastOp, nevents, npolls>>

\* mod.rs:331-336, 344-349, 357-361: on failure the flag is taken back.
move_float_window_result(program, ok) ==
    IF ok THEN program ELSE [program EXCEPT !.float_moved = FALSE]

\* A move_float_window that sends the next command after a failure too.
move_float_window_continues_always(k, ok) == k < Len(FloatCommands)

\* Does move_float_window go on after the k-th command's answer?
\* (mod.rs:331, 344: Ok(_) => (); 357: Ok(_) => Ok(true))
move_float_window_continues(k, ok) == ok /\ k < Len(FloatCommands)

\* mod.rs:357-361: what move_float_window returns for the answer it stops at.
move_float_window_returns(ok) == IF ok THEN "Ok(true)" ELSE "Ok(false)"

\* The commands of move_float_window among those the handler sent.
FloatIssued(commands) ==
    SelectSeq(commands,
              LAMBDA c : c.type \in {FloatCommands[i] : i \in 1..Len(FloatCommands)})

\* mod.rs:330-362: the answer to the k-th command arrives: the next command
\* follows, or move_float_window returns, dropping both locks.
move_float_window_await ==
    /\ listener.pc = "move_float_window_await"
    /\ LET address == listener.event.address
           class == addresses[address].class
       IN  \E ok \in BOOLEAN :
            /\ programs' = [programs EXCEPT ![class] =
                                move_float_window_result(programs[class], ok)]
            /\ IF move_float_window_continues(listener.k, ok)
               THEN /\ listener' = [listener EXCEPT
                                        !.pc = "move_float_window_dispatch",
                                        !.k = listener.k + 1]
                    /\ UNCHANGED <<lastOp, addresses_lock, programs_lock>>
               ELSE /\ listener' = ListenerIdle
                    /\ lastOp' = Answered(Op("move_float_window", class, address, 0,
                                              None, move_float_window_returns(ok), ""),
                                           FloatIssued(Answer(issued, ok)))
                    /\ addresses_lock' = "free"
                    /\ programs_lock' = "free"
            /\ issued' = IssuedAfter(listener', Answer(issued, ok))
    /\ UNCHANGED <<codec, storage, selection, callers, cfg, addresses, current_workspace, changed, poll, persist, file,
                   now, echoes, nevents, npolls>>

\* remove_window (mod.rs:156-169), called by the window-closed handler
\* (main.rs:162-172): the window is removed under the addresses lock, and
\* when the restore decision is true the Workspace command is issued with the
\* lock still held.
remove_window_call(address) ==
        /\ IF address \notin DOMAIN addresses
           THEN /\ lastOp' = Op("remove_window", "", address, 0, None, "Ok", "user")
                /\ issued' = <<>>
                /\ UNCHANGED <<addresses, addresses_lock, listener>>
           ELSE LET window == addresses[address] IN
                /\ addresses' = Remove(addresses, address)
                /\ IF restore_applies(window.class, now - window.timestamp,
                                      cfg.restore_timeout, cfg.restore_list,
                                      cfg.restore_mode)
                   THEN /\ issued' = <<Command("Workspace", address, window.origin)>>
                        /\ addresses_lock' = "listener"
                        /\ listener' = Listener("remove_window_await",
                                            Event("closed", window.class, address,
                                                  window.origin, "user"),
                                            None, 0, 0)
                        /\ UNCHANGED lastOp
                   ELSE /\ lastOp' = Op("remove_window", window.class, address, 0,
                                        None, "Ok", "user")
                        /\ issued' = <<>>
                        /\ UNCHANGED <<addresses_lock, listener>>

\* The window-closed handler (main.rs:162-172) calls remove_window.
remove_window ==
    \E address \in Addresses :
        /\ Taken(Event("closed", "", address, 0, "user"))
        /\ remove_window_call(address)
        /\ UNCHANGED <<codec, storage, selection, callers, cfg, programs, current_workspace, changed, programs_lock,
                       poll, persist, file, now, npolls>>

\* mod.rs:168-176: the answer to the Workspace command arrives; a failure is
\* returned as the error (the `?`).
remove_window_await ==
    /\ listener.pc = "remove_window_await"
    /\ \E ok \in BOOLEAN :
        lastOp' = Answered(Op("remove_window", listener.event.class,
                              listener.event.address, 0, None,
                              IF ok THEN "Ok" ELSE "HyprError", "user"),
                           Answer(issued, ok))
    /\ addresses_lock' = "free"
    /\ listener' = ListenerIdle
    /\ issued' = <<>>
    /\ UNCHANGED <<codec, storage, selection, callers, cfg, addresses, programs, current_workspace, changed,
                   programs_lock, poll, persist, file, now, echoes, nevents, npolls>>

(***************************************************************************)
(* The floating-poll task (main.rs:188-231).                                *)
(***************************************************************************)

\* main.rs:199, 380-383: the copy get_mapped_programs makes.  The loop reads
\* the copy's keys and each program's floating_window only (main.rs:201,
\* 220), and those are what the copy keeps here.
MappedPrograms ==
    [c \in DOMAIN programs |-> [floating_window |-> programs[c].floating_window]]

\* main.rs:192-199: the client list is fetched (on an error the loop starts
\* over: no step), and get_mapped_programs follows at once when the programs
\* lock is free; when the listener holds it the task waits for it.
poll_fetch_from(lists) ==
    /\ poll.pc = "fetch"
    /\ ListenerYielded
    /\ npolls < MaxPolls
    /\ nevents + npolls < MaxActivity
    /\ npolls' = npolls + 1
    /\ \E clients \in lists :
        poll' = IF programs_lock = "free"
                THEN [poll EXCEPT !.pc = "clients", !.clients = clients,
                                  !.programs = MappedPrograms]
                ELSE [poll EXCEPT !.pc = "snapshot", !.clients = clients,
                                  !.programs = EmptyMap]
    /\ UNCHANGED <<codec, storage, selection, callers, cfg, addresses, programs, current_workspace, changed,
                   addresses_lock, programs_lock, listener, persist, file, now,
                   echoes, issued, lastOp, nevents>>

\* The compositor answers with any of the client lists.
poll_fetch == poll_fetch_from(ClientLists)

\* main.rs:199: get_mapped_programs (mod.rs:380-383) gets the lock it waited
\* for.
get_mapped_programs ==
    /\ poll.pc = "snapshot"
    /\ ListenerYielded
    /\ programs_lock = "free"
    /\ poll' = [poll EXCEPT !.pc = "clients", !.programs = MappedPrograms]
    /\ UNCHANGED <<codec, storage, selection, callers, cfg, addresses, programs, current_workspace, changed,
                   addresses_lock, programs_lock, listener, persist, file, now,
                   echoes, issued, lastOp, nevents, npolls>>

\* After a client: the next one, or the sleep and the next cycle
\* (main.rs:200, 229).
PollNext ==
    IF Len(poll.clients) > 1
    THEN [poll EXCEPT !.clients = Tail(poll.clients)]
    ELSE [poll EXCEPT !.pc = "fetch", !.clients = <<>>, !.programs = EmptyMap]

\* mod.rs:272-280, what add_floating_window does to the program it found.
add_floating_window_program(program, window) ==
    IF geometry_changed(program.floating_window, window)
    THEN [program EXCEPT !.floating_window = Some(window)]
    ELSE program

\* mod.rs:277-280: changed is stored only when the geometry was stored.
add_floating_window_changed(program, window, was_changed) ==
    IF geometry_changed(program.floating_window, window) THEN TRUE ELSE was_changed

\* add_floating_window (mod.rs:260-283) as a call.
add_floating_window_call(class, window) ==
    IF class \notin DOMAIN programs
    THEN /\ lastOp' = Op("add_floating_window", class, "", 0,
                         Some(window), "BlankClass", "")
         /\ UNCHANGED <<programs, changed>>
    ELSE /\ programs' = [programs EXCEPT ![class] =
                  add_floating_window_program(programs[class], window)]
         /\ changed' = add_floating_window_changed(programs[class], window, changed)
         /\ lastOp' = Op("add_floating_window", class, "", 0,
                         Some(window), "Ok", "")

\* A remove_floating_window that stores to changed before it looks the
\* program up.
remove_floating_window_call_marks_first(class) ==
    /\ changed' = TRUE
    /\ IF class \notin DOMAIN programs
       THEN /\ lastOp' = Op("remove_floating_window", class, "", 0,
                            None, "BlankClass", "")
            /\ UNCHANGED programs
       ELSE /\ programs' = [programs EXCEPT ![class].floating_window = None]
            /\ lastOp' = Op("remove_floating_window", class, "", 0, None, "Ok", "")

\* remove_floating_window (mod.rs:285-296) as a call.
remove_floating_window_call(class) ==
    IF class \notin DOMAIN programs
    THEN /\ lastOp' = Op("remove_floating_window", class, "", 0,
                         None, "BlankClass", "")
         /\ UNCHANGED <<programs, changed>>
    ELSE /\ programs' = [programs EXCEPT ![class].floating_window = None]
         /\ changed' = TRUE
         /\ lastOp' = Op("remove_floating_window", class, "", 0, None, "Ok", "")

\* main.rs:206-219 with add_floating_window: a floating client of a class
\* the copy knows.
add_floating_window ==
    /\ poll.pc = "clients"
    /\ ListenerYielded
    /\ programs_lock = "free"
    /\ LET client == Head(poll.clients)
           window == [at |-> client.at, size |-> client.size]
       IN  /\ client.class \in DOMAIN poll.programs
           /\ client.floating
           /\ add_floating_window_call(client.class, window)
    /\ poll' = PollNext
    /\ UNCHANGED <<codec, storage, selection, callers, cfg, addresses, current_workspace, addresses_lock, programs_lock,
                   listener, persist, file, now, echoes, issued, nevents, npolls>>

\* main.rs:220-227 with remove_floating_window: a tiled client of a class
\* whose copy has a floating window.
remove_floating_window ==
    /\ poll.pc = "clients"
    /\ ListenerYielded
    /\ programs_lock = "free"
    /\ LET client == Head(poll.clients) IN
           /\ client.class \in DOMAIN poll.programs
           /\ ~client.floating
           /\ IsSome(poll.programs[client.class].floating_window)
           /\ remove_floating_window_call(client.class)
    /\ poll' = PollNext
    /\ UNCHANGED <<codec, storage, selection, callers, cfg, addresses, current_workspace, addresses_lock, programs_lock,
                   listener, persist, file, now, echoes, issued, nevents, npolls>>

\* main.rs:201-204, 220: a client of an unknown class, or a tiled client of
\* a class without a floating window, is passed over.
poll_skip ==
    /\ poll.pc = "clients"
    /\ ListenerYielded
    /\ LET client == Head(poll.clients) IN
           \/ client.class \notin DOMAIN poll.programs
           \/ /\ client.class \in DOMAIN poll.programs
              /\ ~client.floating
              /\ ~IsSome(poll.programs[client.class].floating_window)
    /\ poll' = PollNext
    /\ UNCHANGED <<codec, storage, selection, callers, cfg, addresses, programs, current_workspace, changed,
                   addresses_lock, programs_lock, listener, persist, file, now,
                   echoes, issued, lastOp, nevents, npolls>>

(***************************************************************************)
(* The persistence task (main.rs:233-252).                                  *)
(***************************************************************************)

\* main.rs:237-238: the task finds changed set while the listener holds the
\* programs lock, and waits for the lock in get_programs.  (When changed is
\* not set the task sleeps and looks again: no step.)
persist_check ==
    /\ persist.pc = "check"
    /\ ListenerYielded
    /\ changed
    /\ programs_lock # "free"
    /\ persist' = [persist EXCEPT !.pc = "flush"]
    /\ UNCHANGED <<codec, storage, selection, callers, cfg, addresses, programs, current_workspace, changed,
                   addresses_lock, programs_lock, listener, poll, file, now, echoes,
                   issued, lastOp, nevents, npolls>>

\* A flush that clears changed when the write failed and not when it
\* succeeded.
persist_changed_on_failure(ok, was_changed) == IF ok THEN was_changed ELSE FALSE

\* A flush that never clears changed.
persist_changed_never_cleared(ok, was_changed) == was_changed

\* A flush that clears changed whatever the write returned.
persist_changed_always(ok, was_changed) == FALSE

\* main.rs:239-245: changed is cleared only when the write returned Ok.
persist_changed(ok, was_changed) == IF ok THEN FALSE ELSE was_changed

\* main.rs:237-250: with changed set, get_programs copies the programs and
\* Storage::write truncates the file and writes them; nothing suspends
\* between the copy and the store to changed.  A failed write leaves the
\* file as it was or truncated.  persist.wrote keeps what the latest write
\* returned.
persist_flush ==
    /\ persist.pc = "flush" \/ (persist.pc = "check" /\ changed)
    /\ ListenerYielded
    /\ programs_lock = "free"
    /\ \E ok \in BOOLEAN :
        /\ IF ok THEN file' = FileOf(programs)
                 ELSE file' \in {file, EmptyMap}
        /\ changed' = persist_changed(ok, changed)
        /\ persist' = [pc |-> "check", wrote |-> IF ok THEN "Ok" ELSE "Err"]
    /\ UNCHANGED <<codec, storage, selection, callers, cfg, addresses, programs, current_workspace, addresses_lock,
                   programs_lock, listener, poll, now, echoes, issued, lastOp,
                   nevents, npolls>>

\* A second passes.
Tick ==
    /\ ListenerYielded
    /\ now < MaxTime
    /\ now' = now + 1
    /\ UNCHANGED <<codec, storage, selection, callers, cfg, addresses, programs, current_workspace, changed,
                   addresses_lock, programs_lock, listener, poll, persist, file,
                   echoes, issued, lastOp, nevents, npolls>>

Next ==
    \/ workspace_changed
    \/ UserWindowMoved
    \/ EchoWindowMoved
    \/ add_window
    \/ get_program
    \/ move_window
    \/ move_window_dispatch
    \/ move_window_await
    \/ move_float_window
    \/ move_float_window_dispatch
    \/ move_float_window_await
    \/ remove_window
    \/ remove_window_await
    \/ poll_fetch
    \/ get_mapped_programs
    \/ add_floating_window
    \/ remove_floating_window
    \/ poll_skip
    \/ persist_check
    \/ persist_flush
    \/ Tick

Spec == Init /\ [][Next]_vars

\* The daemon started on an empty storage file (main.rs:74-88 reads no
\* program).
InitFresh == Init /\ programs = EmptyMap

SpecFresh == InitFresh /\ [][Next]_vars

(***************************************************************************)
(* State (mod.rs:56-391) under any caller: the public methods are called    *)
(* one after the other, each with any arguments, as main.rs's handlers and  *)
(* tasks, or any other user of the type, may call them.  The calls are      *)
(* counted in nevents.                                                      *)
(***************************************************************************)
Called ==
    /\ listener.pc = "idle"
    /\ addresses_lock = "free"
    /\ programs_lock = "free"
    /\ nevents < MaxCalls
    /\ nevents' = nevents + 1
    /\ UNCHANGED <<codec, storage, selection, callers, cfg, poll, persist, file, now, echoes, npolls>>

\* State::add_window (mod.rs:121-153) with any class and address.
call_add_window ==
    \E class \in Classes, address \in Addresses :
        /\ Called
        /\ add_window_call(class, address)
        /\ UNCHANGED <<current_workspace, changed, addresses_lock, programs_lock,
                       listener, issued>>

\* State::workspace_changed (mod.rs:385-387).
call_workspace_changed ==
    \E id \in Workspaces :
        /\ Called
        /\ current_workspace' = id
        /\ lastOp' = Op("workspace_changed", "", "", id, None, "", "user")
        /\ UNCHANGED <<addresses, programs, changed, addresses_lock, programs_lock,
                       listener, issued>>

\* State::window_moved (mod.rs:179-220) with any address and workspace.
call_window_moved ==
    \E address \in Addresses, id \in Workspaces :
        /\ Called
        /\ window_moved_call(Event("moved", "", address, id, "user"))
        /\ UNCHANGED <<addresses, current_workspace, addresses_lock, programs_lock,
                       listener, issued>>

\* State::remove_window (mod.rs:156-177) with any address; its answer, when
\* it sends the Workspace command, arrives in remove_window_await.
call_remove_window ==
    \E address \in Addresses :
        /\ Called
        /\ remove_window_call(address)
        /\ UNCHANGED <<programs, current_workspace, changed, programs_lock>>

\* State::add_floating_window (mod.rs:260-283) with any class and geometry.
call_add_floating_window ==
    \E class \in Classes, window \in Geometries :
        /\ Called
        /\ add_floating_window_call(class, window)
        /\ UNCHANGED <<addresses, current_workspace, addresses_lock, programs_lock,
                       listener, issued>>

\* State::remove_floating_window (mod.rs:285-296) with any class.
call_remove_floating_window ==
    \E class \in Classes :
        /\ Called
        /\ remove_floating_window_call(class)
        /\ UNCHANGED <<addresses, current_workspace, addresses_lock, programs_lock,
                       listener, issued>>

\* State::move_window (mod.rs:222-258) is entered with any address and
\* workspace; move_window, move_window_dispatch and move_window_await run it.
call_move_window ==
    \E address \in Addresses, id \in Workspaces :
        /\ Called
        /\ listener' = Listener("move_window",
                                Event("opened", "", address, 0, "user"), None, id, 0)
        /\ UNCHANGED <<addresses, programs, current_workspace, changed,
                       addresses_lock, programs_lock, issued, lastOp>>

\* State::move_float_window (mod.rs:298-363) is entered with any address.
call_move_float_window ==
    \E address \in Addresses :
        /\ Called
        /\ listener' = Listener("move_float_window",
                                Event("opened", "", address, 0, "user"), None, 0, 0)
        /\ UNCHANGED <<addresses, programs, current_workspace, changed,
                       addresses_lock, programs_lock, issued, lastOp>>

NextState ==
    \/ call_add_window
    \/ call_workspace_changed
    \/ call_window_moved
    \/ call_remove_window
    \/ call_add_floating_window
    \/ call_remove_floating_window
    \/ call_move_window
    \/ call_move_float_window
    \/ move_window
    \/ move_window_dispatch
    \/ move_window_await
    \/ move_float_window
    \/ move_float_window_dispatch
    \/ move_float_window_await
    \/ remove_window_await
    \/ Tick

SpecState == Init /\ [][NextState]_vars

(***************************************************************************)
(* The record line codec (program.rs, workspace.rs, floatingwindow.rs) on   *)
(* its own: a line is decoded by Program::from_str, and what it decoded to  *)
(* is encoded by Program's Display.  The lines are put together from a      *)
(* class, at most MaxItems placement items and what follows the placement   *)
(* group; a text is the sequence of its characters.                         *)
(***************************************************************************)
MaxItems == 2

ClassTexts == {<<"f">>, <<"f", ":", "g">>}

\* Items that are two integers with a ';' between them.
GoodItems ==
    {<<"1", ";", "0">>, <<"1", "0", ";", "1", "2">>, <<"-", "1", ";", "0">>}

\* Items that are not: a field that is no integer, one field, an empty
\* field, a ':' in a field, three fields, a bracket in a field.
BadItems ==
    {<<"1", ";", "x">>, <<"1">>, <<"1", ";">>, <<"1", ":", "2", ";", "3">>,
     <<"1", ";", "0", ";", "2">>, <<"[", "1", ";", "0">>}

Items == GoodItems \cup BadItems

Histories == UNION {[1..n -> Items] : n \in 0..MaxItems}

\* What follows the placement group: a geometry group of four int16 ...
GoodGeometry ==
    {<<"&", "[", "1", "0", ";", "-", "2", ";", "3", "0", "0", ";", "4", "]">>}

\* ... an empty geometry group ...
EmptyGeometry == <<"&", "[", "]">>

\* ... or nothing, three fields, a field that is no integer, a field out of
\* the int16 range.
BadGeometry ==
    {<<>>,
     <<"&", "[", "1", ";", "2", ";", "3", "]">>,
     <<"&", "[", "1", ";", "2", ";", "3", ";", "x", "]">>,
     <<"&", "[", "1", ";", "2", ";", "3", ";", "4", "0", "0", "0", "0", "]">>}

GeometryGroups == GoodGeometry \cup {EmptyGeometry} \cup BadGeometry

RECURSIVE Joined(_)
Joined(items) ==
    IF items = <<>> THEN <<>>
    ELSE Head(items) \o (IF Len(items) > 1 THEN <<",">> ELSE <<>>)
            \o Joined(Tail(items))

Line(class, items, geometry) ==
    class \o <<":", "[">> \o Joined(items) \o <<"]">> \o geometry

InitCodec ==
    /\ cfg = Config(Include, Exclude, Include, MaxBuffer)
    /\ programs = EmptyMap
    /\ Started
    /\ \E class \in ClassTexts, items \in Histories, geometry \in GeometryGroups :
        codec = [phase |-> "line", class |-> class, items |-> items,
                 geometry |-> geometry, line |-> Line(class, items, geometry),
                 decoded |-> None, encoded |-> <<>>]
    /\ storage = NoFile
    /\ selection = NoHistory
    /\ callers = NoCallers

\* Program::from_str (program.rs:33-63) on the line.
decode ==
    /\ codec.phase = "line"
    /\ codec' = [codec EXCEPT !.phase = "decoded",
                              !.decoded = Some(Program_from_str(codec.line))]
    /\ UNCHANGED <<storage, selection, callers, cfg, addresses, programs,
                   current_workspace, changed, addresses_lock, programs_lock,
                   listener, poll, persist, file, now, echoes, issued, lastOp,
                   nevents, npolls>>

\* Program's Display (program.rs:14-28) on the program the line decoded to.
encode ==
    /\ codec.phase = "decoded"
    /\ Unwrap(codec.decoded).ok
    /\ codec' = [codec EXCEPT !.phase = "encoded",
                              !.encoded = Program_to_string(Unwrap(codec.decoded).val)]
    /\ UNCHANGED <<storage, selection, callers, cfg, addresses, programs,
                   current_workspace, changed, addresses_lock, programs_lock,
                   listener, poll, persist, file, now, echoes, issued, lastOp,
                   nevents, npolls>>

NextCodec == decode \/ encode

SpecCodec == InitCodec /\ [][NextCodec]_vars

(***************************************************************************)
(* The start of main (main.rs:74-88) on its own: Storage::read on a file of *)
(* at most MaxLines lines, then State::load of what it returned, or the end *)
(* of the process when it returned an error.                                *)
(***************************************************************************)
MaxLines == 2

\* Lines as Storage::write (storage.rs:79-97) writes them.
GoodLines ==
    {<<"f", ":", "[", "1", ";", "0", "]">>,
     <<"g", ":", "[", "1", ";", "0", ",", "2", ";", "1", "]">>}

\* Lines it does not write: a field that is no integer, an object that is
\* no position after one that is, three fields, no ':', and a line of
\* Program's Display (program.rs:14-28).
BadLines ==
    {<<"f", ":", "[", "1", ";", "x", "]">>,
     <<"f", ":", "[", "1", ";", "0", ",", "x", "]">>,
     <<"f", ":", "[", "1", ";", "0", ";", "2", "]">>,
     <<"f">>,
     <<"f", ":", "[", "1", ";", "0", "]", "&", "[", "]">>}

Files == UNION {[1..n -> GoodLines \cup BadLines] : n \in 0..MaxLines}

InitStorage ==
    /\ cfg = Config(Include, Exclude, Include, MaxBuffer)
    /\ programs = EmptyMap
    /\ Started
    /\ codec = NoLine
    /\ selection = NoHistory
    /\ callers = NoCallers
    /\ \E lines \in Files :
        storage = [phase |-> "file", lines |-> lines, value |-> None,
                   loaded |-> EmptyMap]

\* main.rs:75: storage.read().
read ==
    /\ storage.phase = "file"
    /\ \E io_ok \in BOOLEAN :
        storage' = [storage EXCEPT !.phase = "read",
                                   !.value = Some(Storage_read(storage.lines, io_ok))]
    /\ UNCHANGED <<codec, selection, callers, cfg, addresses, programs,
                   current_workspace, changed, addresses_lock, programs_lock,
                   listener, poll, persist, file, now, echoes, issued, lastOp,
                   nevents, npolls>>

\* main.rs:76, 88: State::load(storage_value, ..).
load ==
    /\ storage.phase = "read"
    /\ Unwrap(storage.value).ok
    /\ storage' = [storage EXCEPT !.phase = "loaded",
                                  !.loaded = load_programs(EmptyMap,
                                                           Unwrap(storage.value).val)]
    /\ UNCHANGED <<codec, selection, callers, cfg, addresses, programs,
                   current_workspace, changed, addresses_lock, programs_lock,
                   listener, poll, persist, file, now, echoes, issued, lastOp,
                   nevents, npolls>>

\* main.rs:77-86: return Err(Error::Storage(err)).
abort ==
    /\ storage.phase = "read"
    /\ ~Unwrap(storage.value).ok
    /\ storage' = [storage EXCEPT !.phase = "aborted"]
    /\ UNCHANGED <<codec, selection, callers, cfg, addresses, programs,
                   current_workspace, changed, addresses_lock, programs_lock,
                   listener, poll, persist, file, now, echoes, issued, lastOp,
                   nevents, npolls>>

NextStorage == read \/ load \/ abort

SpecStorage == InitStorage /\ [][NextStorage]_vars

(***************************************************************************)
(* calculate_workspace (main.rs:258-284) on its own: it is called twice on  *)
(* a history of at most MaxPlacements placements, with the same tau and at  *)
(* the same time.                                                           *)
(***************************************************************************)
MaxPlacements == 3

Taus == {1, 100}

CallTime == 1000

\* Placements made now, 10 seconds ago and 1000 seconds ago.
Placements ==
    {Workspace(id, CallTime - age) : id \in {1, 2}, age \in {0, 10, 1000}}

PlacementHistories == UNION {[1..n -> Placements] : n \in 0..MaxPlacements}

InitSelect ==
    /\ cfg = Config(Include, Exclude, Include, MaxBuffer)
    /\ programs = EmptyMap
    /\ Started
    /\ codec = NoLine
    /\ storage = NoFile
    /\ callers = NoCallers
    /\ \E workspaces \in PlacementHistories, tau \in Taus :
        selection = [phase |-> "history", workspaces |-> workspaces, tau |-> tau,
                     t |-> CallTime, results |-> <<>>]

\* main.rs:112: calculate_workspace(program.workspaces, config.workspace.tau);
\* a result is None or Some(workspace_id).
calculate ==
    /\ selection.phase \in {"history", "once"}
    /\ LET found == calculate_workspace_at(selection.workspaces, selection.tau,
                                           selection.t)
       IN  \E result \in (IF found = {} THEN {None} ELSE {Some(id) : id \in found}) :
            selection' = [selection EXCEPT
                            !.phase = IF selection.phase = "history"
                                      THEN "once" ELSE "twice",
                            !.results = Append(selection.results, result)]
    /\ UNCHANGED <<codec, storage, callers, cfg, addresses, programs,
                   current_workspace, changed, addresses_lock, programs_lock,
                   listener, poll, persist, file, now, echoes, issued, lastOp,
                   nevents, npolls>>

NextSelect == calculate

SpecSelect == InitSelect /\ [][NextSelect]_vars

(***************************************************************************)
(* The two mutexes of State (mod.rs:57-58) under concurrent callers.  A     *)
(* call is followed through what it does with the mutexes: it takes one     *)
(* (lock().await, which waits while another task holds it), awaits the      *)
(* answer to a compositor command, or drops a guard.  Two event handlers    *)
(* run side by side with the poll task and the persistence task; the event  *)
(* listener of the daemon runs one handler at a time, which is one of the   *)
(* interleavings here.                                                      *)
(***************************************************************************)
Handlers == {"handler1", "handler2"}

Tasks == Handlers \cup {"poll", "persist"}

\* window_moved taking the programs mutex before the addresses mutex.
LockSteps_window_moved_reversed ==
    [add_window |->
        <<"lock_programs", "unlock_programs", "lock_addresses", "unlock_addresses">>,
     remove_window |-> <<"lock_addresses", "unlock_addresses">>,
     remove_window_restore |-> <<"lock_addresses", "await", "unlock_addresses">>,
     window_moved_blank |-> <<"lock_addresses", "unlock_addresses">>,
     window_moved |->
        <<"lock_programs", "lock_addresses", "unlock_programs", "unlock_addresses">>,
     move_window_return |->
        <<"lock_addresses", "lock_programs", "unlock_programs", "unlock_addresses">>,
     move_window |->
        <<"lock_addresses", "lock_programs", "await", "unlock_programs",
          "unlock_addresses">>,
     move_float_window_return |->
        <<"lock_addresses", "lock_programs", "unlock_programs", "unlock_addresses">>,
     move_float_window_failed |->
        <<"lock_addresses", "lock_programs", "await", "unlock_programs",
          "unlock_addresses">>,
     move_float_window |->
        <<"lock_addresses", "lock_programs", "await", "await", "await",
          "unlock_programs", "unlock_addresses">>,
     get_program |-> <<"lock_programs", "unlock_programs">>,
     get_mapped_programs |-> <<"lock_programs", "unlock_programs">>,
     add_floating_window |-> <<"lock_programs", "unlock_programs">>,
     remove_floating_window |-> <<"lock_programs", "unlock_programs">>,
     get_programs |-> <<"lock_programs", "unlock_programs">>]

\* What each method does with the mutexes, in order, for each of its ways
\* through: add_window (mod.rs:121-153, two blocks), remove_window
\* (mod.rs:156-177, with and without the Workspace command), window_moved
\* (mod.rs:179-220, returning BlankAddress or going on), move_window
\* (mod.rs:222-258, returning before or after its command),
\* move_float_window (mod.rs:298-363, returning before its commands, after
\* the first or after the third), and the methods that take the programs
\* mutex only (mod.rs:260-296, 365-383).  Guards are dropped at the return,
\* the later one first.
LockSteps ==
    [add_window |->
        <<"lock_programs", "unlock_programs", "lock_addresses", "unlock_addresses">>,
     remove_window |-> <<"lock_addresses", "unlock_addresses">>,
     remove_window_restore |-> <<"lock_addresses", "await", "unlock_addresses">>,
     window_moved_blank |-> <<"lock_addresses", "unlock_addresses">>,
     window_moved |->
        <<"lock_addresses", "lock_programs", "unlock_programs", "unlock_addresses">>,
     move_window_return |->
        <<"lock_addresses", "lock_programs", "unlock_programs", "unlock_addresses">>,
     move_window |->
        <<"lock_addresses", "lock_programs", "await", "unlock_programs",
          "unlock_addresses">>,
     move_float_window_return |->
        <<"lock_addresses", "lock_programs", "unlock_programs", "unlock_addresses">>,
     move_float_window_failed |->
        <<"lock_addresses", "lock_programs", "await", "unlock_programs",
          "unlock_addresses">>,
     move_float_window |->
        <<"lock_addresses", "lock_programs", "await", "await", "await",
          "unlock_programs", "unlock_addresses">>,
     get_program |-> <<"lock_programs", "unlock_programs">>,
     get_mapped_programs |-> <<"lock_programs", "unlock_programs">>,
     add_floating_window |-> <<"lock_programs", "unlock_programs">>,
     remove_floating_window |-> <<"lock_programs", "unlock_programs">>,
     get_programs |-> <<"lock_programs", "unlock_programs">>]

\* The methods a task calls: the handlers (main.rs:101-186), the poll task
\* (main.rs:199-227) and the persistence task (main.rs:238).
Calls(task) ==
    IF task \in Handlers
    THEN {"add_window", "get_program", "move_window_return", "move_window",
          "move_float_window_return", "move_float_window_failed",
          "move_float_window", "remove_window", "remove_window_restore",
          "window_moved_blank", "window_moved"}
    ELSE IF task = "poll"
    THEN {"get_mapped_programs", "add_floating_window", "remove_floating_window"}
    ELSE {"get_programs"}

Outside == [call |-> "", at |-> 0]

\* The step a task is at, "" outside of a call.
At(task) ==
    IF callers[task].call = "" THEN ""
    ELSE LockSteps[callers[task].call][callers[task].at]

\* The task after its step: at the next one, or outside after the last.
Stepped(task) ==
    IF callers[task].at = Len(LockSteps[callers[task].call])
    THEN [callers EXCEPT ![task] = Outside]
    ELSE [callers EXCEPT ![task].at = @ + 1]

InitLocks ==
    /\ cfg = Config(Include, Exclude, Include, MaxBuffer)
    /\ programs = EmptyMap
    /\ Started
    /\ codec = NoLine
    /\ storage = NoFile
    /\ selection = NoHistory
    /\ callers = [task \in Tasks |-> Outside]

\* The maps and the daemon's tasks are left out of these steps.
MutexesOnly ==
    UNCHANGED <<codec, storage, selection, cfg, addresses, programs,
                current_workspace, changed, listener, poll, persist, file,
                now, echoes, issued, lastOp, nevents, npolls>>

\* A task calls a method.
call_method ==
    /\ \E task \in Tasks, call \in DOMAIN LockSteps :
           /\ callers[task] = Outside
           /\ call \in Calls(task)
           /\ callers' = [callers EXCEPT ![task] = [call |-> call, at |-> 1]]
           /\ UNCHANGED <<addresses_lock, programs_lock>>
    /\ MutexesOnly

\* self.addresses.0.lock().await: the task gets the mutex when it is free.
lock_addresses ==
    /\ \E task \in Tasks :
           /\ At(task) = "lock_addresses"
           /\ addresses_lock = "free"
           /\ addresses_lock' = task
           /\ callers' = Stepped(task)
           /\ UNCHANGED programs_lock
    /\ MutexesOnly

\* self.programs.0.lock().await.
lock_programs ==
    /\ \E task \in Tasks :
           /\ At(task) = "lock_programs"
           /\ programs_lock = "free"
           /\ programs_lock' = task
           /\ callers' = Stepped(task)
           /\ UNCHANGED addresses_lock
    /\ MutexesOnly

\* Dispatch::call_async(..).await: the compositor answers.
command_answered ==
    /\ \E task \in Tasks :
           /\ At(task) = "await"
           /\ callers' = Stepped(task)
           /\ UNCHANGED <<addresses_lock, programs_lock>>
    /\ MutexesOnly

\* The guard of addresses is dropped.
unlock_addresses ==
    /\ \E task \in Tasks :
           /\ At(task) = "unlock_addresses"
           /\ addresses_lock' = "free"
           /\ callers' = Stepped(task)
           /\ UNCHANGED programs_lock
    /\ MutexesOnly

\* The guard of programs is dropped.
unlock_programs ==
    /\ \E task \in Tasks :
           /\ At(task) = "unlock_programs"
           /\ programs_lock' = "free"
           /\ callers' = Stepped(task)
           /\ UNCHANGED addresses_lock
    /\ MutexesOnly

NextLocks ==
    \/ call_method
    \/ lock_addresses
    \/ lock_programs
    \/ command_answered
    \/ unlock_addresses
    \/ unlock_programs

SpecLocks == InitLocks /\ [][NextLocks]_vars

(***************************************************************************)
(* Properties.  A step "handles an event" when the listener took a user     *)
(* event or an echo in it; which State call the step completed is in        *)
(* lastOp'.                                                                 *)
(***************************************************************************)
Handled == nevents' # nevents \/ Len(echoes') < Len(echoes)

WindowMovedHandled ==
    Handled /\ listener'.pc = "idle" /\ lastOp'.op = "window_moved"

\* The window-moved call found its window and its program.
Found(op) == op.result \in {"Ignored", "Pushed"}

\* C1: when move_window has returned Ok(true) for an address and the next
\* State call is window_moved for the window-moved event of that command
\* (same address, same workspace), that call leaves the workspaces of the
\* window's program as they were, does not store to changed, and takes the
\* moved flag, which was set, back to false.
C1_EchoSuppressed ==
    [][(/\ lastOp.op = "move_window"
        /\ lastOp.result = "Ok(true)"
        /\ WindowMovedHandled
        /\ lastOp'.address = lastOp.address
        /\ lastOp'.workspace_id = lastOp.workspace_id)
       => (/\ programs[lastOp.class].moved
           /\ ~programs'[lastOp.class].moved
           /\ programs'[lastOp.class].workspaces = programs[lastOp.class].workspaces
           /\ changed' = changed)]_vars

\* C1 witness: the echo of a successful move_window was handled right after
\* it and ignored.
C1_Witness ==
    /\ lastOp.op = "window_moved"
    /\ lastOp.origin = "daemon"
    /\ lastOp.result = "Ignored"
    /\ lastOp.after.op = "move_window"
    /\ lastOp.after.result = "Ok(true)"
    /\ lastOp.after.address = lastOp.address
    /\ ~programs[lastOp.class].moved
    /\ ~changed

\* C2: a window-moved event the user caused, for an address that has a
\* window and a program, is never discarded: it pushes its position and
\* stores to changed.
C2_UserMoveRecorded ==
    [][(/\ WindowMovedHandled
        /\ lastOp'.origin = "user"
        /\ Found(lastOp'))
       => (/\ programs'[lastOp'.class].workspaces =
                push_position(programs[lastOp'.class].workspaces,
                              Workspace(lastOp'.workspace_id, now),
                              cfg.workspace_buffer)
           /\ changed')]_vars

\* C3: a window_moved call that finds its window and program leaves the
\* moved flag false; the flag goes from false to true in move_window only; and
\* a window_moved call that finds the flag false pushes (workspace_id, now)
\* and stores to changed.  So a second window_moved for an address, with no
\* move_window since the first, pushes its position.
C3_SecondMovePushed ==
    [][/\ (WindowMovedHandled /\ Found(lastOp'))
          => /\ ~programs'[lastOp'.class].moved
             /\ ~programs[lastOp'.class].moved
                  => /\ programs'[lastOp'.class].workspaces =
                          push_position(programs[lastOp'.class].workspaces,
                                        Workspace(lastOp'.workspace_id, now),
                                        cfg.workspace_buffer)
                     /\ changed'
                     /\ lastOp'.result = "Pushed"
       /\ \A c \in DOMAIN programs :
            (~programs[c].moved /\ programs'[c].moved)
                => (listener.pc = "move_window"
                    /\ listener'.pc = "move_window_dispatch")]_vars

\* C3 witness: a user's move was pushed right after the echo of the daemon's
\* move for the same address had taken the flag back.
C3_Witness ==
    /\ lastOp.op = "window_moved"
    /\ lastOp.result = "Pushed"
    /\ lastOp.after.op = "window_moved"
    /\ lastOp.after.result = "Ignored"
    /\ lastOp.after.address = lastOp.address
    /\ cfg.workspace_buffer > 0
    /\ programs[lastOp.class].workspaces # <<>>
    /\ programs[lastOp.class].workspaces[Len(programs[lastOp.class].workspaces)]
         = Workspace(lastOp.workspace_id, now)
    /\ changed

\* C4: (from an empty storage, under SpecFresh) whatever add_window and
\* window_moved calls have been made, no program's workspaces are longer than
\* workspace_buffer.
C4_HistoryWithinBuffer ==
    \A c \in DOMAIN programs :
        Len(programs[c].workspaces) <= cfg.workspace_buffer

Chronological(workspaces) ==
    \A i \in 1..Len(workspaces) : \A j \in i..Len(workspaces) :
        workspaces[i].timestamp <= workspaces[j].timestamp

\* C5: in every reachable state, the states after State::load of a stored
\* file included, each program's workspaces are at most workspace_buffer long
\* and in chronological order, newest last.
C5_LoadedHistoryWithinBuffer ==
    \A c \in DOMAIN programs :
        /\ Len(programs[c].workspaces) <= cfg.workspace_buffer
        /\ Chronological(programs[c].workspaces)

\* C6: the window-moved event that a MoveToWorkspace command of move_window
\* caused is handled with the moved flag of the window's program set.
C6_EchoFindsFlagSet ==
    [][(/\ WindowMovedHandled
        /\ lastOp'.origin = "daemon"
        /\ Found(lastOp'))
       => programs[lastOp'.class].moved]_vars

\* The step in which move_window gets the answer to its command and returns.
MoveWindowReturns ==
    listener.pc = "move_window_await" /\ listener'.pc # "move_window_await"

\* C7: when the MoveToWorkspace command fails, move_window takes the moved
\* flag back and returns Ok(false), not an error; workspaces and changed are
\* as before; the one command is all it sent; and it returns Ok(true) exactly
\* when the command succeeded.
C7_FailedMoveTakesFlagBack ==
    [][MoveWindowReturns
       => LET class == addresses[listener.event.address].class IN
          /\ lastOp'.op = "move_window"
          /\ lastOp'.answers \in {<<"Ok">>, <<"Err">>}
          /\ listener'.pc # "move_window_dispatch"
          /\ (lastOp'.result = "Ok(true)") <=> (lastOp'.answers = <<"Ok">>)
          /\ (lastOp'.answers = <<"Err">>)
                => (lastOp'.result = "Ok(false)" /\ ~programs'[class].moved)
          /\ programs'[class].workspaces = programs[class].workspaces
          /\ changed' = changed]_vars

\* C7 witness: a move_window whose command failed has returned Ok(false)
\* with the flag taken back.
C7_Witness ==
    /\ lastOp.op = "move_window"
    /\ lastOp.answers = <<"Err">>
    /\ lastOp.result = "Ok(false)"
    /\ lastOp.class \in DOMAIN programs
    /\ ~programs[lastOp.class].moved

\* FilterPolicy.applies as the specification states it.
Applies(class, list, mode) ==
    \/ (mode = Include /\ class \in list)
    \/ (mode = Exclude /\ class \notin list)

\* The step in which move_window runs up to its return or its command.
MoveWindowCalled ==
    /\ listener.pc = "move_window"
    /\ listener'.pc # "move_window"
    /\ listener.event.address \in DOMAIN addresses

\* C8: move_window on a class the workspace filter excludes (Include and not
\* in the list, Exclude and in the list) returns Ok(false), sends no command
\* and leaves programs and changed as they were; on a class the filter lets
\* through it sets the flag and goes on to the command; and the filter lets
\* a class through iff (Include and in the list) or (Exclude and not in it).
C8_FilteredMoveIsNoOp ==
    [][/\ MoveWindowCalled
          => LET class == addresses[listener.event.address].class IN
             IF \/ (cfg.workspace_mode = Include /\ class \notin cfg.workspace_list)
                \/ (cfg.workspace_mode = Exclude /\ class \in cfg.workspace_list)
             THEN /\ lastOp'.op = "move_window"
                  /\ lastOp'.result = "Ok(false)"
                  /\ lastOp'.answers = <<>>
                  /\ listener'.pc # "move_window_dispatch"
                  /\ issued = <<>>
                  /\ issued' = <<>>
                  /\ programs' = programs
                  /\ changed' = changed
             ELSE class \in DOMAIN programs
                    => (listener'.pc = "move_window_dispatch"
                        /\ programs'[class].moved)
       /\ \A class \in Classes, list \in SUBSET Classes, mode \in {Include, Exclude} :
            (~workspace_filter_excludes(class, list, mode))
                <=> Applies(class, list, mode)]_vars

\* C8 witness: move_window has returned Ok(false) for a window of a filtered
\* class without sending a command.
C8_Witness ==
    /\ lastOp.op = "move_window"
    /\ lastOp.result = "Ok(false)"
    /\ lastOp.answers = <<>>
    /\ lastOp.address \in DOMAIN addresses
    /\ ~Applies(lastOp.class, cfg.workspace_list, cfg.workspace_mode)
    /\ ~programs[lastOp.class].moved

\* Are all the answers before the last one Ok?
OkBeforeLast(answers) == \A i \in 1..(Len(answers) - 1) : answers[i] = "Ok"

Types(commands) == [i \in 1..Len(commands) |-> commands[i].type]

\* C9: move_float_window on a class the floating filter lets through sets
\* float_moved before any command, then sends ToggleFloating,
\* MoveWindowPixel and ResizeWindowPixel in that order; it returns Ok(true)
\* iff all three succeeded; at the first command that fails it takes
\* float_moved back, returns Ok(false) and sends none of the later ones; on a
\* filtered class it returns Ok(false) with no command and no flag change.
C9_FloatMoveStopsAtFirstFailure ==
    [][/\ (/\ listener.pc = "move_float_window"
           /\ listener'.pc # "move_float_window"
           /\ listener.event.address \in DOMAIN addresses)
          => LET class == addresses[listener.event.address].class IN
             IF Applies(class, cfg.floating_list, cfg.floating_mode)
             THEN class \in DOMAIN programs
                    => /\ programs'[class].float_moved
                       /\ listener'.pc = "move_float_window_dispatch"
                       /\ FloatIssued(issued') = <<>>
             ELSE /\ lastOp'.op = "move_float_window"
                  /\ lastOp'.result = "Ok(false)"
                  /\ lastOp'.answers = <<>>
                  /\ listener'.pc = "idle"
                  /\ FloatIssued(issued) = <<>>
                  /\ programs' = programs
       /\ (listener.pc = "move_float_window_dispatch" /\ listener'.pc # listener.pc)
          => /\ programs[addresses[listener.event.address].class].float_moved
             /\ Types(FloatIssued(issued'))
                  = SubSeq(FloatCommands, 1, Len(FloatIssued(issued)) + 1)
             /\ \A i \in 1..Len(FloatIssued(issued)) :
                    FloatIssued(issued)[i].answer = "Ok"
       /\ (listener.pc = "move_float_window_await" /\ listener'.pc = "idle")
          => LET class == addresses[listener.event.address].class
                 answers == lastOp'.answers
             IN  /\ lastOp'.op = "move_float_window"
                 /\ Len(answers) = Len(FloatIssued(issued))
                 /\ Len(answers) \in 1..Len(FloatCommands)
                 /\ OkBeforeLast(answers)
                 /\ (lastOp'.result = "Ok(true)")
                        <=> (answers = <<"Ok", "Ok", "Ok">>)
                 /\ (lastOp'.result # "Ok(true)")
                        => /\ lastOp'.result = "Ok(false)"
                           /\ answers[Len(answers)] = "Err"
                           /\ ~programs'[class].float_moved]_vars

\* C9 witness: move_float_window stopped at MoveWindowPixel, its second
\* command, with float_moved taken back.
C9_Witness ==
    /\ lastOp.op = "move_float_window"
    /\ lastOp.result = "Ok(false)"
    /\ lastOp.answers = <<"Ok", "Err">>
    /\ ~programs[lastOp.class].float_moved

\* The step in which the poll task calls add_floating_window for a program
\* that exists.
AddFloatingWindowCalled ==
    /\ poll.pc = "clients"
    /\ poll' # poll
    /\ Head(poll.clients).floating
    /\ Head(poll.clients).class \in DOMAIN poll.programs
    /\ Head(poll.clients).class \in DOMAIN programs

\* C10: add_floating_window(class, g) stores g and stores true to changed
\* iff the program has no floating window or its at or its size differs from
\* g's; with an identical g it changes nothing, changed included (so a second
\* call with the same g finds changed as the persistence task left it).
C10_GeometryStoredIffDiffers ==
    [][AddFloatingWindowCalled
       => LET client == Head(poll.clients)
              g == [at |-> client.at, size |-> client.size]
              stored == programs[client.class].floating_window
          IN  IF \/ stored = None
                 \/ Unwrap(stored).at # g.at
                 \/ Unwrap(stored).size # g.size
              THEN /\ programs'[client.class].floating_window = Some(g)
                   /\ changed'
              ELSE /\ programs' = programs
                   /\ changed' = changed]_vars

\* C10 witness: the same geometry was set twice in a row for a program that
\* had none, the file was written in between, and changed is still false.
C10_Witness ==
    /\ lastOp.op = "add_floating_window"
    /\ lastOp.result = "Ok"
    /\ lastOp.after.op = "add_floating_window"
    /\ lastOp.after.result = "Ok"
    /\ lastOp.after.class = lastOp.class
    /\ lastOp.after.geometry = lastOp.geometry
    /\ lastOp.class = "c2"
    /\ lastOp.class \in DOMAIN file
    /\ programs[lastOp.class].floating_window = lastOp.geometry
    /\ file[lastOp.class].floating_window = lastOp.geometry
    /\ ~changed

\* The step in which a caller's call of the State method op ran from its
\* entry to its return.
CallReturned(op) ==
    nevents' # nevents /\ listener'.pc = "idle" /\ lastOp'.op = op

\* C11: remove_floating_window(class) for a class that has a program sets
\* its floating_window to None and stores true to changed, leaving its
\* workspaces, its flags and every other program as they were; for a class
\* without a program it fails with BlankClass and changes nothing, changed
\* included.
C11_RemoveFloatingWindow ==
    [][CallReturned("remove_floating_window")
       => LET class == lastOp'.class IN
          /\ addresses' = addresses
          /\ IF class \in DOMAIN programs
             THEN /\ lastOp'.result = "Ok"
                  /\ programs' = [programs EXCEPT ![class].floating_window = None]
                  /\ changed'
             ELSE /\ lastOp'.result = "BlankClass"
                  /\ programs' = programs
                  /\ changed' = changed]_vars

\* C11 witness: remove_floating_window took the stored geometry of one class
\* away, and then failed with BlankClass for a class without a program,
\* which it left without one.
C11_Witness ==
    /\ lastOp.op = "remove_floating_window"
    /\ lastOp.result = "BlankClass"
    /\ lastOp.class \notin DOMAIN programs
    /\ lastOp.after.op = "remove_floating_window"
    /\ lastOp.after.result = "Ok"
    /\ programs[lastOp.after.class].floating_window = None
    /\ programs[lastOp.after.class].workspaces # <<>>
    /\ changed

\* C12: add_window(class, address) creates, for a class without a program,
\* the program with the one entry (current_workspace, now), no floating
\* window and both flags false, and leaves a class's existing program as it
\* is; either way the window {class, now, current_workspace} is inserted
\* under address, in place of any window already there; and
\* current_workspace is what the latest workspace_changed stored.
C12_AddWindow ==
    [][/\ CallReturned("add_window")
          => LET class == lastOp'.class
                 address == lastOp'.address
             IN  /\ programs' =
                      IF class \in DOMAIN programs
                      THEN programs
                      ELSE [c \in DOMAIN programs \cup {class} |->
                              IF c = class
                              THEN [workspaces |->
                                      <<[workspace_id |-> current_workspace,
                                         timestamp |-> now]>>,
                                    floating_window |-> None,
                                    moved |-> FALSE,
                                    float_moved |-> FALSE]
                              ELSE programs[c]]
                 /\ DOMAIN addresses' = DOMAIN addresses \cup {address}
                 /\ addresses'[address] =
                      [class |-> class, timestamp |-> now,
                       origin |-> current_workspace]
                 /\ \A a \in DOMAIN addresses \ {address} :
                        addresses'[a] = addresses[a]
       /\ CallReturned("workspace_changed")
          => current_workspace' = lastOp'.workspace_id
       /\ current_workspace' # current_workspace
          => CallReturned("workspace_changed")]_vars

\* C12 witness: after workspace_changed(2), a second add_window for an
\* address has put a window of another class, with origin 2, in the place of
\* the first.
C12_Witness ==
    /\ lastOp.op = "add_window"
    /\ lastOp.after.op = "add_window"
    /\ lastOp.after.address = lastOp.address
    /\ lastOp.after.class # lastOp.class
    /\ current_workspace = 2
    /\ addresses[lastOp.address] = Window(lastOp.class, now, 2)
    /\ lastOp.after.class \in DOMAIN programs
    /\ programs[lastOp.class].workspaces = <<Workspace(2, now)>>

\* The specification's global ignore list, with one class on it.  State has
\* no such list.
IgnoreList == {"c2"}

\* C13: add_window for a class on the global ignore list does nothing: it
\* creates no program and no window.
C13_IgnoredClassNotRegistered ==
    [][(CallReturned("add_window") /\ lastOp'.class \in IgnoreList)
       => (programs' = programs /\ addresses' = addresses)]_vars

\* C14: remove_window(address) takes the window of address out of addresses
\* (the step that does so, and the return of the call, leave programs and
\* changed as they were); for an address without a window, window_moved,
\* move_window and move_float_window fail with BlankAddress and change
\* nothing; and an address gets a window in add_window only.
C14_RemoveWindow ==
    [][/\ (DOMAIN addresses \ DOMAIN addresses' # {})
          => /\ programs' = programs
             /\ changed' = changed
             /\ nevents' # nevents
             /\ \/ CallReturned("remove_window")
                   /\ DOMAIN addresses' = DOMAIN addresses \ {lastOp'.address}
                \/ listener'.pc = "remove_window_await"
                   /\ DOMAIN addresses' = DOMAIN addresses \ {listener'.event.address}
       /\ CallReturned("remove_window")
          => (lastOp'.address \notin DOMAIN addresses'
              /\ programs' = programs /\ changed' = changed)
       /\ (listener.pc = "remove_window_await" /\ listener'.pc = "idle")
          => /\ lastOp'.op = "remove_window"
             /\ lastOp'.address \notin DOMAIN addresses'
             /\ addresses' = addresses
             /\ programs' = programs
             /\ changed' = changed
       /\ (CallReturned("window_moved") /\ lastOp'.address \notin DOMAIN addresses)
          => /\ lastOp'.result = "BlankAddress"
             /\ programs' = programs
             /\ changed' = changed
       /\ (/\ listener.pc \in {"move_window", "move_float_window"}
           /\ listener'.pc # listener.pc
           /\ listener.event.address \notin DOMAIN addresses)
          => /\ lastOp'.op = listener.pc
             /\ lastOp'.address = listener.event.address
             /\ lastOp'.result = "BlankAddress"
             /\ lastOp'.answers = <<>>
             /\ listener'.pc = "idle"
             /\ issued' = <<>>
             /\ programs' = programs
             /\ changed' = changed
       /\ \A a \in DOMAIN addresses' \ DOMAIN addresses :
            CallReturned("add_window") /\ lastOp'.address = a]_vars

\* C14 witness: an address had a window, remove_window took it away, and
\* move_window for the address then failed with BlankAddress, with the
\* program of the window's class still there.
C14_Witness ==
    /\ lastOp.op = "move_window"
    /\ lastOp.result = "BlankAddress"
    /\ lastOp.after.op = "remove_window"
    /\ lastOp.after.address = lastOp.address
    /\ lastOp.after.class \in DOMAIN programs
    /\ lastOp.address \notin DOMAIN addresses

\* C15: window_moved fails with BlankAddress for an address without a window
\* and with BlankClass for a window whose class has no program, and then
\* leaves addresses, programs and changed as they were.  (Every window's
\* class has a program, so the second failure does not arise.)
C15_WindowMovedFailures ==
    [][/\ CallReturned("window_moved")
          => LET address == lastOp'.address IN
             IF address \notin DOMAIN addresses
             THEN /\ lastOp'.result = "BlankAddress"
                  /\ addresses' = addresses
                  /\ programs' = programs
                  /\ changed' = changed
             ELSE IF addresses[address].class \notin DOMAIN programs
             THEN /\ lastOp'.result = "BlankClass"
                  /\ addresses' = addresses
                  /\ programs' = programs
                  /\ changed' = changed
             ELSE lastOp'.result \in {"Ignored", "Pushed"}
       /\ \A a \in DOMAIN addresses' : addresses'[a].class \in DOMAIN programs']_vars

\* C15 witness: window_moved has failed with BlankAddress while a program
\* with a history existed and changed was false.
C15_Witness ==
    /\ lastOp.op = "window_moved"
    /\ lastOp.result = "BlankAddress"
    /\ lastOp.address \notin DOMAIN addresses
    /\ programs # EmptyMap
    /\ ~changed

\* C16: every call that changes what would be written for the programs
\* (their workspaces and floating windows) stores true to changed.
C16_ContentChangeSetsChanged ==
    [][FileOf(programs') # FileOf(programs) => changed']_vars

\* The step in which the persistence task's write returned.
Wrote ==
    /\ persist'.pc = "check"
    /\ persist.pc = "flush" \/ persist'.wrote # persist.wrote \/ file' # file

\* C17: changed goes from true to false only in the persistence task's
\* flush, and only with a write that returned Ok; a write that failed leaves
\* changed set and the task where it looks at changed again, with the flush
\* enabled as soon as the programs lock is free; and with changed false
\* nothing is written.
C17_ChangedClearedByFlushOnly ==
    [][/\ (changed /\ ~changed')
          => /\ persist.pc \in {"check", "flush"}
             /\ persist' = [pc |-> "check", wrote |-> "Ok"]
             /\ file' = FileOf(programs)
             /\ programs' = programs
             /\ lastOp' = lastOp
       /\ Wrote
          => /\ changed
             /\ programs' = programs
             /\ IF persist'.wrote = "Ok"
                THEN file' = FileOf(programs) /\ ~changed'
                ELSE /\ persist'.wrote = "Err"
                     /\ changed'
                     /\ file' \in {file, EmptyMap}
       /\ file' # file => (changed /\ Wrote)
       /\ (changed /\ persist.pc = "check" /\ ListenerYielded /\ programs_lock = "free")
          => ENABLED persist_flush]_vars

\* C17 witness: a write has failed, leaving the file without the programs,
\* and changed is still set with the task back where it looks at it.
C17_Witness ==
    /\ persist = [pc |-> "check", wrote |-> "Err"]
    /\ changed
    /\ file # FileOf(programs)

(***************************************************************************)
(* The codec's lines.  A line matches the record grammar when its class has *)
(* no ':', each of its items (there may be none) is two integers and its    *)
(* geometry group is empty or four int16.                                   *)
(***************************************************************************)
Decoded == codec.phase \in {"decoded", "encoded"}

MatchesGrammar ==
    /\ codec.phase # "none"
    /\ \A i \in 1..Len(codec.class) : codec.class[i] # ":"
    /\ \A i \in 1..Len(codec.items) : codec.items[i] \in GoodItems
    /\ codec.geometry \in GoodGeometry \cup {EmptyGeometry}

\* C18: a line that matches the record grammar, the line of a record with
\* an empty history and no geometry included, decodes successfully, and
\* encoding what it decoded to gives the line back.
C18_RoundTrip ==
    MatchesGrammar =>
        /\ Decoded => Unwrap(codec.decoded).ok
        /\ codec.phase = "encoded" => codec.encoded = codec.line

\* The text before the first occurrence of a character, and the text after
\* it (the whole text and nothing when the character does not occur).
RECURSIVE BeforeFirst(_, _)
BeforeFirst(s, c) ==
    IF s = <<>> \/ Head(s) = c THEN <<>>
    ELSE <<Head(s)>> \o BeforeFirst(Tail(s), c)

AfterFirst(s, c) ==
    IF Len(BeforeFirst(s, c)) = Len(s) THEN <<>>
    ELSE SubSeq(s, Len(BeforeFirst(s, c)) + 2, Len(s))

\* C19: a line decodes to what its class, the text before its first ':',
\* and the whole remainder after that ':' decode to, whatever further ':'
\* the remainder holds.
C19_SplitOnFirstColon ==
    Decoded =>
        Unwrap(codec.decoded)
            = Program_from_data(BeforeFirst(codec.line, ":"),
                                AfterFirst(codec.line, ":"))

MalformedItem == \E i \in 1..Len(codec.items) : codec.items[i] \in BadItems

\* C20: a line whose placement items are well formed and whose geometry
\* group is absent, empty or malformed decodes to a program without
\* geometry, and a line with a malformed placement item does not decode.
C20_GeometryLenientItemsStrict ==
    Decoded =>
        /\ MalformedItem => ~Unwrap(codec.decoded).ok
        /\ (~MalformedItem /\ codec.geometry \notin GoodGeometry) =>
                /\ Unwrap(codec.decoded).ok
                /\ Unwrap(codec.decoded).val.floating_window = None

(***************************************************************************)
(* The storage file at startup.                                             *)
(***************************************************************************)
MalformedLine ==
    \E i \in 1..Len(storage.lines) : storage.lines[i] \in BadLines

\* C21: when a line of the file does not parse, reading the file ends with
\* an error, the load is aborted and nothing is loaded: no program of the
\* file, with or without the malformed part, reaches State::load.
C21_MalformedLineAbortsLoad ==
    (storage.phase \in {"read", "loaded", "aborted"} /\ MalformedLine) =>
        /\ ~Unwrap(storage.value).ok
        /\ storage.phase # "loaded"
        /\ storage.loaded = EmptyMap

(***************************************************************************)
(* calculate_workspace.                                                     *)
(***************************************************************************)
Calculated == selection.phase \in {"once", "twice"}

\* C22: calculate_workspace gives None for an empty history and the
\* workspace w for a history that is the one placement (w, t), whatever
\* tau > 0 and t are.
C22_EmptyAndSingleHistory ==
    Calculated =>
        \A i \in 1..Len(selection.results) :
            /\ selection.workspaces = <<>> => selection.results[i] = None
            /\ Len(selection.workspaces) = 1 =>
                    selection.results[i] = Some(selection.workspaces[1].workspace_id)

C22_Witness ==
    /\ selection.phase = "twice"
    /\ selection.workspaces = <<Workspace(2, 0)>>
    /\ selection.tau = 1
    /\ selection.results = <<Some(2), Some(2)>>

\* The sum of the scores of a workspace's placements.
RECURSIVE SummedScore(_, _, _, _)
SummedScore(workspaces, id, tau, t) ==
    IF workspaces = <<>> THEN 0
    ELSE (IF Head(workspaces).workspace_id = id
          THEN powf_E(t - Head(workspaces).timestamp, tau) ELSE 0)
         + SummedScore(Tail(workspaces), id, tau, t)

RecentAndOld == <<Workspace(1, CallTime - 10), Workspace(2, CallTime - 1000)>>

\* C23: the workspace calculate_workspace gives has the greatest sum of
\* scores e^(-(now - timestamp) / tau) among the workspaces of the history,
\* all scored at the same now; for the placements (1, now - 10) and
\* (2, now - 1000) with tau = 100 it is workspace 1.
C23_MaximalSummedScore ==
    Calculated =>
        \A i \in 1..Len(selection.results) :
            /\ selection.workspaces # <<>> => IsSome(selection.results[i])
            /\ IsSome(selection.results[i]) =>
                \A j \in 1..Len(selection.workspaces) :
                    SummedScore(selection.workspaces,
                                selection.workspaces[j].workspace_id,
                                selection.tau, selection.t)
                        <= SummedScore(selection.workspaces,
                                       Unwrap(selection.results[i]),
                                       selection.tau, selection.t)
            /\ (selection.workspaces = RecentAndOld /\ selection.tau = 100) =>
                    selection.results[i] = Some(1)

\* Two placements decide against one more recent placement.
C23_Witness ==
    /\ selection.phase = "twice"
    /\ selection.workspaces
        = <<Workspace(2, CallTime - 10), Workspace(1, CallTime),
            Workspace(2, CallTime - 10)>>
    /\ selection.tau = 100
    /\ selection.results = <<Some(2), Some(2)>>

\* C24: two calls of calculate_workspace with the same placements, the same
\* tau and the same now give the same workspace, also when two workspaces
\* have the same summed score.
C24_SameInputsSameWorkspace ==
    selection.phase = "twice" => selection.results[1] = selection.results[2]

(***************************************************************************)
(* The restore decision.                                                    *)
(***************************************************************************)

\* C25: when remove_window takes a window away, it issues the Workspace
\* command for the window's origin exactly when the seconds since the window
\* was opened are at most restore_timeout and the window's class passes the
\* restore filter: it does at restore_timeout seconds and does not at
\* restore_timeout + 1.
C25_RestoreDecision ==
    [][\A a \in DOMAIN addresses \ DOMAIN addresses' :
        LET window == addresses[a]
            diff == now - window.timestamp
            passes == Applies(window.class, cfg.restore_list, cfg.restore_mode)
            restores == /\ listener'.pc = "remove_window_await"
                        /\ issued' = <<Command("Workspace", a, window.origin)>>
        IN  /\ restores <=> (diff <= cfg.restore_timeout /\ passes)
            /\ (diff = cfg.restore_timeout /\ passes) => restores
            /\ diff = cfg.restore_timeout + 1 => ~restores]_vars

\* C25 witness: a window is closed in the second it was opened in, which is
\* restore_timeout seconds after, and the Workspace command is issued.
C25_Witness ==
    /\ listener.pc = "remove_window_await"
    /\ now = cfg.restore_timeout
    /\ issued = <<Command("Workspace", listener.event.address,
                          listener.event.workspace_id)>>

(***************************************************************************)
(* The two locks.                                                           *)
(***************************************************************************)
CommandAwaited ==
    listener.pc \in {"move_window_await", "move_float_window_await"}

\* C26: while a command of move_window or move_float_window waits for the
\* compositor's answer, neither the addresses lock nor the programs lock is
\* held, so that the other handlers and the two timers can take them.
C26_LocksFreeWhileCommandAwaits ==
    CommandAwaited => (addresses_lock = "free" /\ programs_lock = "free")

\* A task waits for a mutex another task holds.
WaitsFor(task, other) ==
    /\ task # other
    /\ \/ At(task) = "lock_addresses" /\ addresses_lock = other
       \/ At(task) = "lock_programs" /\ programs_lock = other

Deadlocked == \E task \in Tasks, other \in Tasks :
    WaitsFor(task, other) /\ WaitsFor(other, task)

\* C27: a task takes the addresses mutex only while it does not hold the
\* programs mutex, so a task that holds both took the addresses mutex first;
\* a task that holds the programs mutex never asks for the addresses mutex;
\* and no two tasks wait for each other's mutex.
C27_LockOrderNoDeadlock ==
    [][\A task \in Tasks :
        /\ (addresses_lock' = task /\ addresses_lock # task) => programs_lock # task
        /\ (addresses_lock' = task /\ programs_lock' = task /\ programs_lock # task)
                => addresses_lock = task
        /\ programs_lock = task => At(task) # "lock_addresses"
        /\ ~Deadlocked']_vars

\* C27 witness: a handler holds both mutexes while its command is awaited,
\* the other handler waits for the addresses mutex and the two timers wait
\* for the programs mutex.
C27_Witness ==
    /\ addresses_lock = "handler1"
    /\ programs_lock = "handler1"
    /\ At("handler1") = "await"
    /\ At("handler2") = "lock_addresses"
    /\ At("poll") = "lock_programs"
    /\ At("persist") = "lock_programs"

(***************************************************************************)
(* Windows and their programs.                                              *)
(***************************************************************************)

\* C28: no program is ever taken out of programs, every window in addresses
\* has a program for its class, and no call of window_moved, move_window or
\* move_float_window returns BlankClass.
C28_EveryWindowHasItsProgram ==
    [][/\ DOMAIN programs \subseteq DOMAIN programs'
       /\ \A a \in DOMAIN addresses' : addresses'[a].class \in DOMAIN programs'
       /\ lastOp'.op \in {"window_moved", "move_window", "move_float_window"}
            => lastOp'.result # "BlankClass"]_vars

\* C28 witness: with a program in storage for c1, a window of the class c2
\* was opened and moved, and the move was recorded in the program created
\* for c2.
C28_Witness ==
    /\ lastOp.op = "window_moved"
    /\ lastOp.result = "Pushed"
    /\ lastOp.class = "c2"
    /\ "c1" \in DOMAIN file
    /\ lastOp.address \in DOMAIN addresses
    /\ addresses[lastOp.address].class = "c2"
    /\ "c2" \in DOMAIN programs

(***************************************************************************)
(* The flush and the changes it saves.                                      *)
(***************************************************************************)

LiveClientLists ==
    ClientLists \cup
    {<<Client("c1", FALSE, G0)>>,
     <<Client("c1", TRUE, G0), Client("c1", TRUE, G1)>>,
     <<Client("c1", FALSE, G0), Client("c1", FALSE, G1)>>,
     <<Client("c1", TRUE, G0), Client("c2", TRUE, G1)>>}

\* Programs the state holds when the poll task starts: every class of a
\* live window may have its program, with or without a floating geometry.
PolledPrograms ==
    {[c \in cs |-> Program(<<Workspace(1, 0)>>, fw, FALSE, FALSE)] :
        cs \in {{"c1"}, {"c1", "c2"}}, fw \in {None, Some(G0)}}

InitPoll ==
    /\ cfg \in Configs
    /\ programs \in PolledPrograms
    /\ Constructed
    /\ \E live \in LiveClientLists :
        poll = [pc |-> "fetch", clients |-> <<>>, programs |-> EmptyMap,
                live |-> live]
    /\ codec = NoLine
    /\ storage = NoFile
    /\ selection = NoHistory
    /\ callers = NoCallers

\* main.rs:196: the compositor answers with the same clients every cycle.
poll_fetch_live == poll_fetch_from({poll.live})

NextPoll ==
    \/ poll_fetch_live
    \/ add_floating_window
    \/ remove_floating_window
    \/ poll_skip
    \/ persist_flush

SpecPoll == InitPoll /\ [][NextPoll]_vars

\* A step of the poll task in a cycle after its first one.
LaterCycleStep == poll.pc = "clients" /\ npolls > 1 /\ poll' # poll

\* C30: with live clients that do not change, the poll cycles after the
\* first one modify no program and do not set changed, also when several
\* live windows have one class.
C30_LaterCyclesChangeNothing ==
    [][LaterCycleStep => (programs' = programs /\ changed' = changed)]_vars

\* The same for live lists of one window: the gate of
\* add_floating_window stops the second cycle.
SingleWindowStable ==
    [][(LaterCycleStep /\ Len(poll.live) = 1)
        => (programs' = programs /\ changed' = changed)]_vars

\* ---------------------------------------------------------------------
\* float_moved after a move that succeeded.

\* The class of the floating client for which this step of the poll task
\* calls add_floating_window, or None when the step is not such a call.
GeometryConsumed ==
    IF /\ poll.pc = "clients"
       /\ poll' # poll
       /\ Head(poll.clients).floating
       /\ Head(poll.clients).class \in DOMAIN poll.programs
       /\ Head(poll.clients).class \in DOMAIN programs
    THEN Some(Head(poll.clients).class)
    ELSE None

\* C31: float_moved is a one-shot guard: once the poll task has taken the
\* geometry of a floating window of a class (its add_floating_window call,
\* which consumes the change a successful move_float_window made), the
\* float_moved flag of that class is false.
C31_FloatMovedResetWhenConsumed ==
    [][\A class \in Classes :
          GeometryConsumed = Some(class) => ~programs'[class].float_moved]_vars

\* ---------------------------------------------------------------------
\* The window-opened handler over stored programs of every shape.

\* Programs the state holds when a window opens: none, one with an empty
\* history (written by a run with a buffer of 0) with and without a
\* floating geometry, and one whose history names two workspaces.
OpenedPrograms ==
    StoredPrograms \cup
    {[c \in {"c1"} |-> Program(<<>>, fw, FALSE, FALSE)] : fw \in {None, Some(G1)}}
    \cup {[c \in {"c1"} |-> Program(<<Workspace(2, 0)>>, None, FALSE, FALSE)]}

InitOpened ==
    /\ cfg \in Configs
    /\ programs \in OpenedPrograms
    /\ Started
    /\ codec = NoLine
    /\ storage = NoFile
    /\ selection = NoHistory
    /\ callers = NoCallers

\* The listener with the workspace-changed and window-opened handlers, and
\* the poll task beside it.
NextOpened ==
    \/ workspace_changed
    \/ add_window
    \/ get_program
    \/ move_window
    \/ move_window_dispatch
    \/ move_window_await
    \/ move_float_window
    \/ move_float_window_dispatch
    \/ move_float_window_await
    \/ poll_fetch
    \/ get_mapped_programs
    \/ add_floating_window
    \/ remove_floating_window
    \/ poll_skip

SpecOpened == InitOpened /\ [][NextOpened]_vars

\* The MoveToWorkspace commands among those the handler sent.
MoveIssued(commands) ==
    SelectSeq(commands, LAMBDA c : c.type = "MoveToWorkspace")

\* C32: the window-opened handler calls add_window, looks the program up
\* and chooses the target: a workspace calculate_workspace gives for the
\* history, or, for an empty history, the current workspace (where the
\* window was registered).  For a class the workspace filter lets through
\* it then sends MoveToWorkspace once, with that target, and after
\* move_window it calls move_float_window iff the program it looked up has
\* a floating window.
C32_OpenedMovesOnceThenFloats ==
    [][/\ listener'.pc = "get_program"
          => /\ lastOp'.op = "add_window"
             /\ listener'.event.address \in DOMAIN addresses'
             /\ listener'.event.class \in DOMAIN programs'
             /\ issued' = <<>>
       /\ (listener.pc = "get_program" /\ listener'.pc # listener.pc)
          => LET class == listener.event.class
                 history == programs[class].workspaces
             IN  /\ listener'.pc = "move_window"
                 /\ listener'.program = Some(programs[class])
                 /\ IF history = <<>>
                    THEN /\ listener'.workspace_id = current_workspace
                         /\ listener'.workspace_id
                              = addresses[listener.event.address].origin
                    ELSE listener'.workspace_id
                              \in calculate_workspace(history, now)
                 /\ issued' = <<>>
       /\ (listener.pc = "move_window" /\ listener'.pc # listener.pc
              /\ Applies(listener.event.class, cfg.workspace_list,
                         cfg.workspace_mode))
          => listener'.pc = "move_window_dispatch"
       /\ (listener.pc = "move_window_dispatch" /\ listener'.pc # listener.pc)
          => issued' = <<Command("MoveToWorkspace", listener.event.address,
                                 listener.workspace_id)>>
       /\ Len(MoveIssued(issued')) <= 1
       /\ (listener.pc \in {"move_window", "move_window_await"}
              /\ listener'.pc \notin {"move_window", "move_window_dispatch",
                                       "move_window_await"})
          => /\ lastOp'.op = "move_window"
             /\ (listener'.pc = "move_float_window")
                    <=> IsSome(Unwrap(listener.program).floating_window)
             /\ listener'.pc # "move_float_window" => listener'.pc = "idle"
       /\ listener'.pc \in {"move_window", "move_window_dispatch",
                             "move_window_await", "move_float_window"}
          => (listener.pc # "get_program" => listener'.program = listener.program)
      ]_vars

\* C32 witness: a window of a class with an empty history and a floating
\* window was opened on workspace 2; MoveToWorkspace went out once, for
\* workspace 2, and the handler is about to call move_float_window.
C32_Witness ==
    /\ listener.pc = "move_float_window"
    /\ listener.program = Some(Program(<<>>, Some(G1), FALSE, FALSE))
    /\ listener.workspace_id = 2
    /\ lastOp.op = "move_window"
    /\ lastOp.result = "Ok(true)"
    /\ issued = <<[Command("MoveToWorkspace", listener.event.address, 2)
                      EXCEPT !.answer = "Ok"]>>

\* C32 witness of the other branch: the program looked up has no floating
\* window and the handler returned after move_window.
C32_WitnessNoFloat ==
    /\ listener.pc = "idle"
    /\ lastOp.op = "move_window"
    /\ lastOp.result = "Ok(true)"
    /\ lastOp.class \in DOMAIN programs
    /\ programs[lastOp.class].floating_window = None

\* ---------------------------------------------------------------------
\* The window-closed handler.

\* The step in which the window-closed handler takes its event and
\* remove_window runs up to its return or to its Workspace command.
WindowClosedTaken ==
    /\ nevents' # nevents
    /\ \/ listener'.pc = "remove_window_await"
       \/ (listener'.pc = "idle" /\ lastOp'.op = "remove_window")

\* The address of the window-closed event taken in this step.
ClosedAddress ==
    IF listener'.pc = "remove_window_await"
    THEN listener'.event.address ELSE lastOp'.address

\* The Workspace commands among those the handler sent.
WorkspaceIssued(commands) == SelectSeq(commands, LAMBDA c : c.type = "Workspace")

\* C33: on window-closed the window is removed from addresses whether or
\* not a command is sent and whatever its answer; a Workspace command for
\* the window's origin is sent at most once, and only when the address was
\* known and the restore decision is true; no step of the close path
\* changes a program (history, floating window, moved, float_moved) or
\* changed.
C33_CloseRemovesAndKeepsRecords ==
    [][/\ WindowClosedTaken
          => /\ addresses' = Remove(addresses, ClosedAddress)
             /\ programs' = programs
             /\ changed' = changed
             /\ issued' # <<>>
                  <=> /\ ClosedAddress \in DOMAIN addresses
                      /\ LET window == addresses[ClosedAddress] IN
                          /\ now - window.timestamp <= cfg.restore_timeout
                          /\ Applies(window.class, cfg.restore_list,
                                     cfg.restore_mode)
             /\ issued' # <<>>
                  => /\ issued' = <<Command("Workspace", ClosedAddress,
                                            addresses[ClosedAddress].origin)>>
                     /\ listener'.pc = "remove_window_await"
             /\ issued' = <<>> => listener'.pc = "idle"
       /\ (listener.pc = "remove_window_await" /\ listener'.pc # listener.pc)
          => /\ listener'.pc = "idle"
             /\ lastOp'.op = "remove_window"
             /\ lastOp'.answers \in {<<"Ok">>, <<"Err">>}
             /\ Len(issued) = 1
             /\ listener.event.address \notin DOMAIN addresses'
             /\ addresses' = addresses
             /\ programs' = programs
             /\ changed' = changed
       /\ Len(WorkspaceIssued(issued')) <= 1
      ]_vars

\* C33 witness: the Workspace command of a closed window failed, and the
\* window is gone from addresses.
C33_Witness ==
    /\ listener.pc = "idle"
    /\ lastOp.op = "remove_window"
    /\ lastOp.answers = <<"Err">>
    /\ lastOp.result = "HyprError"
    /\ lastOp.address \notin DOMAIN addresses
    /\ lastOp.class \in DOMAIN programs

\* ---------------------------------------------------------------------
\* The persistence task until the file is up to date.

\* main.rs:191-230: the steps of the poll task.
PollTask ==
    \/ poll_fetch_live
    \/ add_floating_window
    \/ remove_floating_window
    \/ poll_skip

\* The poll task makes the changes and the persistence task writes them.
\* The poll loop runs for ever (main.rs:191), so a step of it that stays
\* possible is taken; it stops at MaxPolls cycles.  Nothing is assumed of
\* the writes: a write may fail every time (storage.rs:79-97 returns the
\* io::Error), and a failed write that leaves the file as it was changes
\* nothing.
SpecPersist == InitPoll /\ [][NextPoll]_vars /\ WF_vars(PollTask)

\* storage.rs:79-97 returning Ok: a flush whose write succeeded.
WriteSucceeds == persist_flush /\ persist'.wrote = "Ok"

\* The file holds what Display gives for the programs, and changed is
\* clear.
Saved == ~changed /\ file = FileOf(programs)

ChangedLeadsToSavedUnconditionally == changed ~> Saved

====
